---------------------------- MODULE Spec2Model ----------------------------
(***************************************************************************)
(* jobd: a job queue daemon (Worker), its Master, and the framed message   *)
(* protocol they share.                                                    *)
(*                                                                         *)
(* The module holds these state machines over one set of variables:       *)
(*   Spec           one Worker, its MySQL link, its target queues, its     *)
(*                  polling cycle, run-manual requests and job runners;    *)
(*   SpecTwo        two Workers claiming rows of the same table;           *)
(*   SpecTargets    one Worker taking poll, pause and continue requests    *)
(*                  with any targets field;                                *)
(*   SpecConfig     one Worker started from a configuration file, taking   *)
(*                  add-target and remove-target requests;                 *)
(*   SpecLimit      one Worker with mysql_fetch_limit 0, 1 or 2 and three  *)
(*                  waiting rows;                                          *)
(*   SpecMixed      one Worker serving two targets with one slot each and  *)
(*                  waiting rows of both;                                  *)
(*   SpecFleet      two Workers that register with the Master and take     *)
(*                  add-target and remove-target requests;                 *)
(*   SpecRouter     one Connection and the RequestHandler behind it;       *)
(*   SpecLink       one Connection that also sends requests and closes;    *)
(*   SpecFraming    the bytes of a Connection, cut into messages;          *)
(*   SpecReconnect  the Worker's link to the Master (connectToMaster);     *)
(*   SpecMaster     the Master's WorkersList (registry, throttled poke);   *)
(*   SpecRegister   the Master taking register-worker requests with any    *)
(*                  targets field, named or not;                           *)
(*   SpecRegistry   the Master's registry while connections register,     *)
(*                  register again and close;                              *)
(*   SpecRunManual  the Master's run-manual fan-out to its Workers.        *)
(***************************************************************************)
EXTENDS Integers, Sequences, FiniteSets, TLC

(***************************************************************************)
(* Bounds of the model.                                                    *)
(***************************************************************************)
MaxId == 2
MaxRows == 3
MaxConc == 2
MaxReq == 2
MaxJobs == 3
MaxFail == 1
MaxOps == 3

\* ids a run-manual request may name: the rows of the table and one id the table lacks
ReqIds == 1..(MaxId + 1)
Workers == {1, 2}
TargetNames == {"a", "b"}
Reqs == 1..MaxReq
JobKeys == 1..MaxJobs

\* lib/worker.js constants
STATUS_WAITING == "waiting"
STATUS_MANUAL == "manual"
STATUS_ACCEPTED == "accepted"
STATUS_IGNORED == "ignored"
STATUS_RUNNING == "running"
STATUS_DONE == "done"
RESULT_OK == "ok"
RESULT_FAIL == "fail"
JOB_ACCEPTED == "JOB_ACCEPTED"
JOB_IGNORED == "JOB_IGNORED"
JOB_NOTFOUND == "JOB_NOTFOUND"

\* the key `null` of nextpoll
NULL == "null"

\* a request without a targets field: validateInputTargets returns null
NoTargets == {NULL}

VARIABLES
    \* ---- storage (the MySQL table and each Worker's connection to it)
    rows,         \* committed table: id -> [status, target, result, code]
    txn,          \* per Worker link: [active, locks, writes] of its open transaction
    fails,        \* storage failures injected so far
    fetchLimit,   \* config mysql_fetch_limit
    ops,          \* requests received and storage failures so far
    \* ---- Worker memory (each a function of the Worker)
    targets,      \* Worker.targets: name -> [paused, concurrency, jobs, pending, running]
    polling,      \* Worker.polling
    nextpoll,     \* Worker.nextpoll (its keys)
    gt,           \* the getTasks() calls in progress: flow -> locals
    req,          \* run-manual requests: slot -> state
    jobPromises,  \* jobd.js jobPromises: id -> slot of the request that waits
    job,          \* queued and running jobs: key -> [id, target, pc, result, code]
    dbq,          \* calls queued on the Worker's link, in issue order
    lastBad,      \* the last poll, pause or continue request that named a target the
                  \* Worker does not serve, and its answer: [n, type, targets, reply]
    retriggered,  \* onJobFinished has started a polling cycle (history)
    lastHeld,     \* the last add-target request that named a served target or
                  \* remove-target request that named a target with jobs in its
                  \* queue, and its answer: [n, type, target, reply, seen]
    \* ---- history
    acceptedBy,   \* id -> Workers whose UPDATE ... status='accepted' named it
    exitOf,       \* id -> how the last child process of the job ended
    active,       \* the Workers that take part in this specification
    \* ---- one Connection of a daemon and the RequestHandler behind it
    daemon,       \* "worker" or "master": whose handlers are registered
    password,     \* config.get('password') is set
    isAuthorized, \* Connection._isAuthorized
    closed,       \* the Connection was closed
    frames,       \* the messages received so far: [kind, no, type]
    calls,        \* what became of the handler call made for each of them
    sent,         \* the messages written to the socket: [re, no, kind]
    outgoing,     \* the Connection was made by connect(): the Worker's link to the Master
    localhost,    \* the peer is 127.0.0.1 and always_allow_localhost is set
    rx,           \* for each message received: [pw, sends] as it arrived
    requestPromises, \* Connection._requestPromises: the nos that await a response
    futures,      \* the Promise of each sendRequest so far: [no, state]
    \* ---- the bytes of one direction of a Connection
    put,          \* the messages the peer passed to send(), in order
    wire,         \* the bytes written by the peer that did not arrive yet
    data,         \* Connection.data: the bytes received and not yet cut
    got,          \* the messages _processChunks parsed, in order
    \* ---- the Worker's link to the Master (jobd.js connectToMaster)
    link,         \* [st, left, attempts, closeListener, handled, dropped]
    \* ---- the Master's WorkersList
    now,          \* the clock
    workers,      \* WorkersList.workers: a list of [connection, targets]
    targetsToPoke,
    targetsWaitingToPoke,
    thr,          \* the throttle around _pokeWorkers: [lastCallTime, lastInvokeTime,
                  \*                                     lastArgs, timerAt]
    polls,        \* connection -> the targets of the poll requests sent on it
    pokes,        \* poke calls so far
    gone,         \* the connections that were closed
    mrun,         \* the Master's run-manual call: [st, jobs, calls, exceptions, resp]
    lastReg,      \* the last register-worker request and its answer:
                  \* [connection, targets, named, reply]
    \* ---- history of the throttle
    win,          \* the window the last leading call opened
    lastWin       \* the last window that ended

\* the ids of the rows of the table
RowIds == DOMAIN rows

wvars == <<rows, txn, fails, fetchLimit, ops, targets, polling, nextpoll, gt, req,
           jobPromises, job, dbq, lastBad, retriggered, lastHeld, acceptedBy,
           exitOf, active>>

fvars == <<put, wire, data, got>>

rvars == <<daemon, password, isAuthorized, closed, frames, calls, sent,
           outgoing, localhost, rx, requestPromises, futures, link, fvars>>

mvars == <<now, workers, targetsToPoke, targetsWaitingToPoke, thr, polls, pokes,
           gone, mrun, lastReg, win, lastWin>>

vars == <<wvars, rvars, mvars>>

-----------------------------------------------------------------------------
(***************************************************************************)
(* Small helpers.                                                          *)
(***************************************************************************)
EmptyFn == [x \in {} |-> 0]

Without(f, x) == [y \in (DOMAIN f) \ {x} |-> f[y]]

Range(s) == {s[i] : i \in DOMAIN s}

Min(S) == CHOOSE x \in S : \A y \in S : x <= y

RECURSIVE SetToSeq(_)
\* the elements of a set of integers in ascending order
SetToSeq(S) == IF S = {} THEN <<>> ELSE <<Min(S)>> \o SetToSeq(S \ {Min(S)})

RECURSIVE SelectSeq2(_, _)
\* the elements of sequence s that are in set S, order kept
SelectSeq2(s, S) ==
    IF s = <<>> THEN <<>>
    ELSE (IF Head(s) \in S THEN <<Head(s)>> ELSE <<>>) \o SelectSeq2(Tail(s), S)

RECURSIVE Uniq(_)
\* lodash uniq: first occurrences, order kept
Uniq(s) ==
    IF s = <<>> THEN <<>>
    ELSE LET u == Uniq(SubSeq(s, 1, Len(s) - 1))
         IN IF s[Len(s)] \in Range(u) THEN u ELSE Append(u, s[Len(s)])

-----------------------------------------------------------------------------
(***************************************************************************)
(* Storage: lib/db.js and the MySQL server behind it.                      *)
(*                                                                         *)
(* Each Worker owns one link.  The server runs the calls of a link in the  *)
(* order they were issued (dbq).  A transaction holds the rows it read     *)
(* FOR UPDATE or wrote until COMMIT; START TRANSACTION commits the         *)
(* transaction that is open on the link; a statement outside a transaction *)
(* commits at once; a lost connection rolls the open transaction back.     *)
(***************************************************************************)
NoTxn == [active |-> FALSE, locks |-> {}, writes |-> EmptyFn]

\* what can happen to one call link[method](...): it succeeds, it fails with an
\* ordinary error (a lock wait timeout, a deadlock victim), or the connection is
\* lost (error.fatal) and the call made again on the new link succeeds or fails
Fates == {"ok", "error", "lost_retry_ok", "lost_retry_fail"}

FatesOf(method) == IF method = "query" THEN Fates ELSE Fates \ {"error"}

\* db.js wrap(): what the caller of db.query / db.beginTransaction / db.commit
\* gets.  The catch block retries fatal errors once and falls off its end for
\* every other error, so the async function returns undefined.
wrap(fate) ==
    CASE fate = "ok" -> "value"
      [] fate = "error" -> "undefined"
      [] fate = "lost_retry_ok" -> "value"
      [] fate = "lost_retry_fail" -> "throw"

\* the statement took effect on the server
Executed(fate) == fate \in {"ok", "lost_retry_ok"}

\* the link's transaction as the statement finds it: gone when the connection was lost
Txn0(w, fate) == IF fate \in {"lost_retry_ok", "lost_retry_fail"} THEN NoTxn ELSE txn[w]

Apply(R, wr) == [id \in RowIds |-> IF id \in DOMAIN wr THEN wr[id] ELSE R[id]]

\* the row as link w sees it
View(w, fate, id) ==
    LET t == Txn0(w, fate) IN IF id \in DOMAIN t.writes THEN t.writes[id] ELSE rows[id]

LockedByOther(w, id) == \E v \in Workers \ {w} : id \in txn[v].locks

\* the newest version of a row on the server, committed or not
Latest(id) ==
    IF \E v \in Workers : id \in DOMAIN txn[v].writes
    THEN LET v == CHOOSE v \in Workers : id \in DOMAIN txn[v].writes IN txn[v].writes[id]
    ELSE rows[id]

\* a statement that reads or writes the rows `ids` waits while another link holds one
Blocked(w, ids) == \E id \in ids \cap RowIds : LockedByOther(w, id)

\* START TRANSACTION
DbBegin(w, fate) ==
    LET t == Txn0(w, fate) IN
    IF Executed(fate)
    THEN [rows |-> Apply(rows, t.writes),
          t    |-> [active |-> TRUE, locks |-> {}, writes |-> EmptyFn]]
    ELSE [rows |-> rows, t |-> t]

\* COMMIT
DbCommit(w, fate) ==
    LET t == Txn0(w, fate) IN
    IF Executed(fate)
    THEN [rows |-> Apply(rows, t.writes), t |-> NoTxn]
    ELSE [rows |-> rows, t |-> t]

\* SELECT id, status, target ... FOR UPDATE: the ids that match, ascending;
\* the transaction, if one is open, keeps them locked
DbSelect(w, fate, ids) ==
    LET t == Txn0(w, fate) IN
    IF Executed(fate) /\ t.active
    THEN [rows |-> rows, t |-> [t EXCEPT !.locks = @ \cup (ids \cap RowIds)]]
    ELSE [rows |-> rows, t |-> t]

\* UPDATE ... SET <set> WHERE id IN (ids): the columns named in set are
\* overwritten, the others keep their values
DbUpdate(w, fate, ids, set) ==
    LET t    == Txn0(w, fate)
        hit  == ids \cap RowIds
        newv == [id \in hit |->
                   [c \in DOMAIN rows[id] |->
                      IF c \in DOMAIN set THEN set[c] ELSE View(w, fate, id)[c]]]
    IN IF ~Executed(fate) THEN [rows |-> rows, t |-> t]
       ELSE IF t.active
       THEN [rows |-> rows,
             t |-> [t EXCEPT !.locks = @ \cup hit,
                             !.writes = [id \in (DOMAIN t.writes) \cup hit |->
                                            IF id \in hit THEN newv[id] ELSE t.writes[id]]]]
       ELSE [rows |-> Apply(rows, newv), t |-> t]

-----------------------------------------------------------------------------
(***************************************************************************)
(* Worker memory.  The synchronous code of the daemon runs to its next     *)
(* await without interleaving, so it is written as operators from the      *)
(* memory of one Worker, a record S, to the memory afterwards.             *)
(***************************************************************************)
PollFlow == <<"poll", 0>>
ManFlow(r) == <<"man", r>>
JobFlow(k) == <<"job", k>>
GtFlows == {PollFlow} \cup {ManFlow(r) : r \in Reqs}

GtIdle == [pc |-> "idle", needed |-> "", targets |-> {}, ids |-> <<>>,
           res |-> EmptyFn, order |-> <<>>, rowsCount |-> 0]

ReqNone == [st |-> "none", ids |-> <<>>, settled |-> EmptyFn,
            resp |-> "none", jobs |-> {}, errors |-> {}, sent |-> 0]

Mem(w) == [targets |-> targets[w], polling |-> polling[w], nextpoll |-> nextpoll[w],
           gt |-> gt[w], req |-> req[w], jobPromises |-> jobPromises[w],
           job |-> job[w], dbq |-> dbq[w], lastBad |-> lastBad[w],
           retriggered |-> retriggered[w], lastHeld |-> lastHeld[w]]

SetMem(w, S) ==
    /\ targets' = [targets EXCEPT ![w] = S.targets]
    /\ polling' = [polling EXCEPT ![w] = S.polling]
    /\ nextpoll' = [nextpoll EXCEPT ![w] = S.nextpoll]
    /\ gt' = [gt EXCEPT ![w] = S.gt]
    /\ req' = [req EXCEPT ![w] = S.req]
    /\ jobPromises' = [jobPromises EXCEPT ![w] = S.jobPromises]
    /\ job' = [job EXCEPT ![w] = S.job]
    /\ dbq' = [dbq EXCEPT ![w] = S.dbq]
    /\ lastBad' = [lastBad EXCEPT ![w] = S.lastBad]
    /\ retriggered' = [retriggered EXCEPT ![w] = S.retriggered]
    /\ lastHeld' = [lastHeld EXCEPT ![w] = S.lastHeld]

\* ---- the `queue` package, as Worker.addTarget configures it
\*      (concurrency: limit, autostart: true)

\* queue.length
QLength(q) == q.pending + Len(q.jobs)

RECURSIVE QStart_nolimit(_, _)
QStart_nolimit(S, t) ==
    LET q  == S.targets[t]
        S1 == [S EXCEPT !.targets[t].running = TRUE]
    IN IF q.jobs = <<>>
       THEN (IF q.pending = 0 THEN [S1 EXCEPT !.targets[t].running = FALSE] ELSE S1)
       ELSE LET k  == Head(q.jobs)
                S2 == [S1 EXCEPT !.targets[t].jobs = Tail(q.jobs),
                                 !.targets[t].pending = q.pending + 1,
                                 !.job[k].pc = "setRunning",
                                 !.dbq = Append(S1.dbq, JobFlow(k))]
            IN IF S2.targets[t].jobs # <<>> THEN QStart_nolimit(S2, t) ELSE S2

RECURSIVE QStart_lifo(_, _)
\* a queue that takes the job pushed last (jobs.pop() for jobs.shift())
QStart_lifo(S, t) ==
    LET q  == S.targets[t]
        S1 == [S EXCEPT !.targets[t].running = TRUE]
    IN IF q.pending >= q.concurrency THEN S1
       ELSE IF q.jobs = <<>>
       THEN (IF q.pending = 0 THEN [S1 EXCEPT !.targets[t].running = FALSE] ELSE S1)
       ELSE LET k  == q.jobs[Len(q.jobs)]
                S2 == [S1 EXCEPT !.targets[t].jobs = SubSeq(q.jobs, 1, Len(q.jobs) - 1),
                                 !.targets[t].pending = q.pending + 1,
                                 !.job[k].pc = "setRunning",
                                 !.dbq = Append(S1.dbq, JobFlow(k))]
            IN IF S2.targets[t].jobs # <<>> THEN QStart_lifo(S2, t) ELSE S2

RECURSIVE QStart(_, _)
\* queue.start(): sets running, then takes jobs while pending < concurrency.
\* A job taken is called at once; it runs to its first await, the
\* setJobStatus(id, STATUS_RUNNING) query (enqueueJob).
QStart(S, t) ==
    LET q  == S.targets[t]
        S1 == [S EXCEPT !.targets[t].running = TRUE]
    IN IF q.pending >= q.concurrency THEN S1
       ELSE IF q.jobs = <<>>
       THEN (IF q.pending = 0 THEN [S1 EXCEPT !.targets[t].running = FALSE] ELSE S1)
       ELSE LET k  == Head(q.jobs)
                S2 == [S1 EXCEPT !.targets[t].jobs = Tail(q.jobs),
                                 !.targets[t].pending = q.pending + 1,
                                 !.job[k].pc = "setRunning",
                                 !.dbq = Append(S1.dbq, JobFlow(k))]
            IN IF S2.targets[t].jobs # <<>> THEN QStart(S2, t) ELSE S2

\* queue.stop()
QStop(S, t) == [S EXCEPT !.targets[t].running = FALSE]

\* queue.push(job): with autostart the queue is started on every push
QPush(S, t, k) == QStart([S EXCEPT !.targets[t].jobs = Append(@, k)], t)

\* ---- Worker (lib/worker.js)

\* Worker.getPollTargets
GetPollTargets(S) == IF NULL \in S.nextpoll THEN DOMAIN S.targets ELSE S.nextpoll

\* Worker.hasPollTarget
HasPollTarget(S, t) == t \in S.nextpoll \/ NULL \in S.nextpoll

\* setPollTargets that starts from an empty set for an array as well
SetPollTargets_replace(S, target) ==
    IF target = NoTargets THEN [S EXCEPT !.nextpoll = {NULL}]
    ELSE [S EXCEPT !.nextpoll = target]

\* Worker.setPollTargets(target): an array is added, null replaces the set
SetPollTargets(S, target) ==
    IF target = NoTargets THEN [S EXCEPT !.nextpoll = {NULL}]
    ELSE [S EXCEPT !.nextpoll = @ \cup target]

\* Worker.hasFreeTargets
HasFreeTargets(S, inTargets) ==
    \E t \in (DOMAIN S.targets) \cap inTargets :
        QLength(S.targets[t]) < S.targets[t].concurrency

\* the synchronous head of Worker.getTasks: db.beginTransaction() is issued
GetTasksStart(S, f, tgts, neededStatus, ids) ==
    [S EXCEPT !.gt[f] = [GtIdle EXCEPT !.pc = "begin", !.needed = neededStatus,
                                       !.targets = tgts, !.ids = ids],
              !.dbq = Append(@, f)]

\* poll() that does not look at the polling flag
Poll_reentrant(S) ==
    LET tgts == GetPollTargets(S) IN
    IF tgts = {} THEN S
    ELSE IF ~HasFreeTargets(S, tgts) THEN S
    ELSE GetTasksStart([S EXCEPT !.polling = TRUE, !.nextpoll = {}],
                       PollFlow, tgts, STATUS_WAITING, <<>>)

\* Worker.poll, up to the call of getTasks
Poll(S) ==
    LET tgts == GetPollTargets(S) IN
    IF tgts = {} THEN S
    ELSE IF S.polling THEN S
    ELSE IF ~HasFreeTargets(S, tgts) THEN S
    ELSE GetTasksStart([S EXCEPT !.polling = TRUE, !.nextpoll = {}],
                       PollFlow, tgts, STATUS_WAITING, <<>>)

\* the chain of poll() without the first .then's setPollTargets(targets)
PollSettled_noMore(S, fulfilled) ==
    LET S2 == [S EXCEPT !.polling = FALSE, !.gt[PollFlow] = GtIdle]
    IN IF GetPollTargets(S2) # {} THEN Poll(S2) ELSE S2

\* the chain of poll() with the last .then skipped after a failure
PollSettled_stuck(S, fulfilled) ==
    IF fulfilled THEN [S EXCEPT !.polling = FALSE, !.gt[PollFlow] = GtIdle]
    ELSE [S EXCEPT !.gt[PollFlow] = GtIdle]

\* Worker.poll: the .then / .catch / .then chain after getTasks settled
PollSettled(S, fulfilled) ==
    LET g  == S.gt[PollFlow]
        S1 == IF fulfilled /\ fetchLimit # 0 /\ g.rowsCount >= fetchLimit
              THEN SetPollTargets(S, g.targets) ELSE S
        S2 == [S1 EXCEPT !.polling = FALSE, !.gt[PollFlow] = GtIdle]
    IN IF GetPollTargets(S2) # {} THEN Poll(S2) ELSE S2

\* onJobFinished that never polls
OnJobFinished_quiet(S, t) == S

\* Worker.onJobFinished
OnJobFinished(S, t) ==
    LET q == S.targets[t] IN
    IF ~q.paused /\ QLength(q) < q.concurrency /\ HasPollTarget(S, t)
    THEN [Poll(S) EXCEPT !.retriggered = @ \/ (~S.polling /\ Poll(S).polling)]
    ELSE S

\* the callback `next` the queue hands to a job (cb() in enqueueJob)
QNext(S, k) ==
    LET t  == S.job[k].target
        S1 == [S EXCEPT !.targets[t].pending = @ - 1, !.job = Without(@, k)]
        S2 == OnJobFinished(S1, t)
        q  == S2.targets[t]
    IN IF q.pending = 0 /\ q.jobs = <<>>
       THEN [S2 EXCEPT !.targets[t].running = FALSE]
       ELSE IF q.running THEN QStart(S2, t) ELSE S2

\* Worker.enqueueJob(id, target), for a target the Worker has
EnqueueJob(S, id, t) ==
    LET k == Min(JobKeys \ DOMAIN S.job)
        S1 == [S EXCEPT !.job = [j \in (DOMAIN S.job) \cup {k} |->
                                   IF j = k THEN [id |-> id, target |-> t, pc |-> "queued",
                                                  result |-> RESULT_OK, code |-> "none"]
                                   ELSE S.job[j]]]
    IN QPush(S1, t, k)

-----------------------------------------------------------------------------
(***************************************************************************)
(* run-manual on the Worker (jobd.js) and the router's reply to it         *)
(* (RequestHandler.process).                                               *)
(***************************************************************************)
AllSettled(rq) == \A id \in DOMAIN rq.settled : rq.settled[id] # "pending"

\* the .then of Promise.allSettled(promises) builds the response and
\* RequestHandler.process sends it as data
Respond(S, r) ==
    LET rq == S.req[r] IN
    [S EXCEPT !.req[r].st = "answered", !.req[r].resp = "data",
              !.req[r].jobs = {id \in DOMAIN rq.settled : rq.settled[id] = "resolved"},
              !.req[r].errors = {id \in DOMAIN rq.settled : rq.settled[id] = "rejected"},
              !.req[r].sent = @ + 1]

\* the handler's promise is rejected: RequestHandler.process sends error=<message>
HandlerThrow(S, r, kind) ==
    [S EXCEPT !.req[r].st = "answered", !.req[r].resp = kind, !.req[r].sent = @ + 1]

\* P.resolve(data) / P.reject(error) on the promise request r made for id
Settle(S, r, id, how) ==
    LET rq == S.req[r] IN
    IF rq.st \in {"claiming", "waiting"} /\ id \in DOMAIN rq.settled
       /\ rq.settled[id] = "pending"
    THEN LET S1 == [S EXCEPT !.req[r].settled[id] = how]
         IN IF rq.st = "waiting" /\ AllSettled(S1.req[r]) THEN Respond(S1, r) ELSE S1
    ELSE S

\* worker.on('job-done', ...) in initWorker
JobDoneEvent(S, id) ==
    IF id \in DOMAIN S.jobPromises
    THEN Settle([S EXCEPT !.jobPromises = Without(@, id)], S.jobPromises[id], id, "resolved")
    ELSE S

RECURSIVE MakePromises_upto(_, _, _)
\* promises for the ids that precede the first one already awaited
MakePromises_upto(jp, r, ids) ==
    IF ids = <<>> \/ Head(ids) \in DOMAIN jp THEN jp
    ELSE MakePromises_upto([i \in (DOMAIN jp) \cup {Head(ids)} |->
                               IF i = Head(ids) THEN r ELSE jp[i]], r, Tail(ids))

OnRunManual_eager(S, r, ids) ==
    LET jobIds == Uniq(ids) IN
    IF \E id \in Range(jobIds) : id \in DOMAIN S.jobPromises
    THEN HandlerThrow([S EXCEPT !.req[r].ids = jobIds,
                                !.jobPromises = MakePromises_upto(@, r, jobIds)],
                      r, "error_waiting")
    ELSE GetTasksStart(
            [S EXCEPT !.req[r] = [ReqNone EXCEPT !.st = "claiming", !.ids = jobIds,
                                     !.settled = [id \in Range(jobIds) |-> "pending"]],
                      !.jobPromises = [i \in (DOMAIN S.jobPromises) \cup Range(jobIds) |->
                                          IF i \in Range(jobIds) THEN r ELSE S.jobPromises[i]]],
            ManFlow(r), {}, STATUS_MANUAL, jobIds)

\* onRunManual, up to `await worker.getTasks(null, STATUS_MANUAL, {ids})`
OnRunManual(S, r, ids) ==
    LET jobIds == Uniq(ids) IN
    IF \E id \in Range(jobIds) : id \in DOMAIN S.jobPromises
    THEN HandlerThrow([S EXCEPT !.req[r].ids = jobIds], r, "error_waiting")
    ELSE GetTasksStart(
            [S EXCEPT !.req[r] = [ReqNone EXCEPT !.st = "claiming", !.ids = jobIds,
                                     !.settled = [id \in Range(jobIds) |-> "pending"]],
                      !.jobPromises = [i \in (DOMAIN S.jobPromises) \cup Range(jobIds) |->
                                          IF i \in Range(jobIds) THEN r ELSE S.jobPromises[i]]],
            ManFlow(r), {}, STATUS_MANUAL, jobIds)

RECURSIVE RejectLoop(_, _, _)
\* onRunManual: "reject all ignored / non-found jobs".  An id that is no longer
\* in jobPromises reaches this.logger.error, and `this` has no logger there.
RejectLoop(S, order, res) ==
    IF order = <<>> THEN [S |-> S, threw |-> FALSE]
    ELSE LET id == Head(order) IN
         IF id \notin DOMAIN S.jobPromises THEN [S |-> S, threw |-> TRUE]
         ELSE IF res[id].result \in {JOB_IGNORED, JOB_NOTFOUND}
         THEN RejectLoop(Settle([S EXCEPT !.jobPromises = Without(@, id)],
                                S.jobPromises[id], id, "rejected"),
                         Tail(order), res)
         ELSE RejectLoop(S, Tail(order), res)

\* onRunManual after getTasks returned its results
OnRunManualResults(S, r) ==
    LET g  == S.gt[ManFlow(r)]
        lp == RejectLoop(S, g.order, g.res)
        S1 == [lp.S EXCEPT !.gt[ManFlow(r)] = GtIdle]
    IN IF lp.threw THEN HandlerThrow(S1, r, "error_TypeError")
       ELSE IF AllSettled(S1.req[r]) THEN Respond(S1, r)
       ELSE [S1 EXCEPT !.req[r].st = "waiting"]

\* a getTasks call that ends rejected, as its caller takes it
GetTasksRejected(S, f, kind) ==
    IF f = PollFlow THEN PollSettled(S, FALSE)
    ELSE HandlerThrow([S EXCEPT !.gt[f] = GtIdle], f[2], kind)

\* getTasks: the loop over the rows of the SELECT, and the not-found ids
Classify(S, f, found, seen) ==
    LET g   == S.gt[f]
        nf  == SelectSeq2(g.ids, Range(g.ids) \ found)
        res == [id \in found \cup Range(nf) |->
                  IF id \notin found THEN [result |-> JOB_NOTFOUND, target |-> ""]
                  ELSE IF seen[id].status # g.needed
                  THEN [result |-> JOB_IGNORED, target |-> ""]
                  ELSE IF seen[id].target \notin DOMAIN S.targets
                  THEN [result |-> JOB_IGNORED, target |-> ""]
                  ELSE [result |-> JOB_ACCEPTED, target |-> seen[id].target]]
    IN [S EXCEPT !.gt[f].res = res, !.gt[f].order = SetToSeq(found) \o nf,
                 !.gt[f].rowsCount = Cardinality(found)]

Accepted(g) == {id \in DOMAIN g.res : g.res[id].result = JOB_ACCEPTED}
Ignored(g) == {id \in DOMAIN g.res : g.res[id].result = JOB_IGNORED}

\* getTasks goes on to its next storage call
GtIssue(S, f, pc) == [S EXCEPT !.gt[f].pc = pc, !.dbq = Append(@, f)]

GtAfterSelect(S, f) ==
    IF Accepted(S.gt[f]) # {} THEN GtIssue(S, f, "updAcc")
    ELSE IF Ignored(S.gt[f]) # {} THEN GtIssue(S, f, "updIgn")
    ELSE GtIssue(S, f, "commit")

GtAfterUpdAcc(S, f) ==
    IF Ignored(S.gt[f]) # {} THEN GtIssue(S, f, "updIgn") ELSE GtIssue(S, f, "commit")

RECURSIVE EnqueueLoop(_, _, _)
\* getTasks after the commit: enqueueJob for every accepted id, in Map order.
\* this.targets[target].queue throws when the target is gone.
EnqueueLoop(S, order, res) ==
    IF order = <<>> THEN [S |-> S, threw |-> FALSE]
    ELSE LET id == Head(order) IN
         IF res[id].result # JOB_ACCEPTED THEN EnqueueLoop(S, Tail(order), res)
         ELSE IF res[id].target \notin DOMAIN S.targets THEN [S |-> S, threw |-> TRUE]
         ELSE EnqueueLoop(EnqueueJob(S, id, res[id].target), Tail(order), res)

GtAfterCommit(S, f) ==
    LET g  == S.gt[f]
        lp == EnqueueLoop(S, g.order, g.res)
    IN IF lp.threw THEN GetTasksRejected(lp.S, f, "error_target")
       ELSE IF f = PollFlow THEN PollSettled(lp.S, TRUE)
       ELSE OnRunManualResults(lp.S, f[2])

-----------------------------------------------------------------------------
(***************************************************************************)
(* Actions of a Worker: the storage calls of getTasks and of a job, each   *)
(* taken when the server reaches it, together with the code that runs      *)
(* when its promise settles.                                                *)
(***************************************************************************)
Turn(w, f) == w \in active /\ dbq[w] # <<>> /\ Head(dbq[w]) = f

\* the storage failures and the requests a behaviour holds are bounded together
Fail(fate) ==
    /\ fate # "ok" => fails < MaxFail /\ ops < MaxOps
    /\ fails' = IF fate = "ok" THEN fails ELSE fails + 1
    /\ ops' = IF fate = "ok" THEN ops ELSE ops + 1

Store(w, d) == rows' = d.rows /\ txn' = [txn EXCEPT ![w] = d.t]

Dequeued(w) == [Mem(w) EXCEPT !.dbq = Tail(@)]

\* getTasks: await db.beginTransaction()
GtBegin(w, f, fate) ==
    /\ Turn(w, f) /\ gt[w][f].pc = "begin"
    /\ fate \in FatesOf("beginTransaction") /\ Fail(fate)
    /\ Store(w, DbBegin(w, fate))
    /\ SetMem(w, IF wrap(fate) = "throw"
                 THEN GetTasksRejected(Dequeued(w), f, "error_storage")
                 ELSE GtIssue(Dequeued(w), f, "select"))
    /\ UNCHANGED <<fetchLimit, acceptedBy, exitOf, active, rvars, mvars>>

\* the ids the SELECT of getTasks matches on link w
Matching(w, fate, g) ==
    IF g.ids # <<>> THEN Range(g.ids) \cap RowIds
    ELSE LET m == {id \in RowIds : /\ View(w, fate, id).status = g.needed
                                   /\ View(w, fate, id).target \in g.targets}
         IN IF fetchLimit # 0 /\ Cardinality(m) > fetchLimit
            THEN Range(SubSeq(SetToSeq(m), 1, fetchLimit)) ELSE m

\* the rows another link holds that the SELECT has to read
SelectWaits(w, g) ==
    IF g.ids # <<>> THEN Blocked(w, Range(g.ids))
    ELSE \E id \in RowIds :
            /\ LockedByOther(w, id)
            /\ \/ rows[id].status = g.needed /\ rows[id].target \in g.targets
               \/ Latest(id).status = g.needed /\ Latest(id).target \in g.targets

\* getTasks: let rows = await db.query(SELECT ... FOR UPDATE), and the
\* classification of the rows
GtSelect(w, f, fate) ==
    /\ Turn(w, f) /\ gt[w][f].pc = "select"
    /\ fate \in FatesOf("query") /\ Fail(fate)
    /\ Executed(fate) => ~SelectWaits(w, gt[w][f])
    /\ LET found == Matching(w, fate, gt[w][f])
           seen  == [id \in found |-> View(w, fate, id)]
       IN /\ Store(w, DbSelect(w, fate, found))
          /\ SetMem(w, CASE wrap(fate) = "throw" ->
                              GetTasksRejected(Dequeued(w), f, "error_storage")
                         [] wrap(fate) = "undefined" ->
                              GetTasksRejected(Dequeued(w), f, "error_rows")
                         [] OTHER ->
                              GtAfterSelect(Classify(Dequeued(w), f, found, seen), f))
    /\ UNCHANGED <<fetchLimit, acceptedBy, exitOf, active, rvars, mvars>>

SetAccepted == [status |-> STATUS_ACCEPTED]
SetIgnored == [status |-> STATUS_IGNORED]

\* getTasks: UPDATE ... SET status='accepted' WHERE id IN (accepted)
GtUpdAcc(w, f, fate) ==
    /\ Turn(w, f) /\ gt[w][f].pc = "updAcc"
    /\ fate \in FatesOf("query") /\ Fail(fate)
    /\ Executed(fate) => ~Blocked(w, Accepted(gt[w][f]))
    /\ Store(w, DbUpdate(w, fate, Accepted(gt[w][f]), SetAccepted))
    /\ SetMem(w, IF wrap(fate) = "throw"
                 THEN GetTasksRejected(Dequeued(w), f, "error_storage")
                 ELSE GtAfterUpdAcc(Dequeued(w), f))
    /\ acceptedBy' = [id \in RowIds |->
                        IF Executed(fate) /\ id \in Accepted(gt[w][f])
                        THEN acceptedBy[id] \cup {w} ELSE acceptedBy[id]]
    /\ UNCHANGED <<fetchLimit, exitOf, active, rvars, mvars>>

\* getTasks: UPDATE ... SET status='ignored' WHERE id IN (ignored)
GtUpdIgn(w, f, fate) ==
    /\ Turn(w, f) /\ gt[w][f].pc = "updIgn"
    /\ fate \in FatesOf("query") /\ Fail(fate)
    /\ Executed(fate) => ~Blocked(w, Ignored(gt[w][f]))
    /\ Store(w, DbUpdate(w, fate, Ignored(gt[w][f]), SetIgnored))
    /\ SetMem(w, IF wrap(fate) = "throw"
                 THEN GetTasksRejected(Dequeued(w), f, "error_storage")
                 ELSE GtIssue(Dequeued(w), f, "commit"))
    /\ UNCHANGED <<fetchLimit, acceptedBy, exitOf, active, rvars, mvars>>

\* getTasks: await db.commit(), then enqueueJob for the accepted rows and the
\* return to poll() or onRunManual
GtCommit(w, f, fate) ==
    /\ Turn(w, f) /\ gt[w][f].pc = "commit"
    /\ fate \in FatesOf("commit") /\ Fail(fate)
    /\ Cardinality(DOMAIN job[w]) + Cardinality(Accepted(gt[w][f])) <= MaxJobs
    /\ Store(w, DbCommit(w, fate))
    /\ SetMem(w, IF wrap(fate) = "throw"
                 THEN GetTasksRejected(Dequeued(w), f, "error_storage")
                 ELSE GtAfterCommit(Dequeued(w), f))
    /\ UNCHANGED <<fetchLimit, acceptedBy, exitOf, active, rvars, mvars>>

\* Worker.setJobStatus(id, STATUS_RUNNING): the default result is RESULT_OK
SetRunning == [status |-> STATUS_RUNNING, result |-> RESULT_OK]

\* Worker.setJobStatus(id, STATUS_DONE, result, data)
SetDone(result, code) ==
    [status |-> STATUS_DONE, result |-> result, code |-> code]

\* the job's finally block: emit('job-done'), then setJobStatus(id, STATUS_DONE)
JobFinally(S, k, result, code) ==
    LET S1 == JobDoneEvent(S, S.job[k].id)
    IN [S1 EXCEPT !.job[k].pc = "setDone", !.job[k].result = result,
                  !.job[k].code = code, !.dbq = Append(@, JobFlow(k))]

\* enqueueJob: await this.setJobStatus(id, STATUS_RUNNING), then run(id) spawns
JobSetRunning(w, k, fate) ==
    /\ Turn(w, JobFlow(k)) /\ job[w][k].pc = "setRunning"
    /\ fate \in FatesOf("query") /\ Fail(fate)
    /\ Executed(fate) => ~Blocked(w, {job[w][k].id})
    /\ Store(w, DbUpdate(w, fate, {job[w][k].id}, SetRunning))
    /\ SetMem(w, IF wrap(fate) = "throw"
                 THEN JobFinally(Dequeued(w), k, RESULT_FAIL, "null")
                 ELSE [Dequeued(w) EXCEPT !.job[k].pc = "child"])
    /\ UNCHANGED <<fetchLimit, acceptedBy, exitOf, active, rvars, mvars>>

\* how a child process ends: exit code 0, exit code 1, killed by a signal
\* (code null), or the spawn fails ('error')
Exits == {"0", "1", "signal", "error"}

\* enqueueJob: if (data.code !== 0) result = RESULT_FAIL; catch: RESULT_FAIL
ResultOf(x) == IF x = "0" THEN RESULT_OK ELSE RESULT_FAIL

CodeOf(x) == IF x \in {"0", "1"} THEN x ELSE "null"

\* run(id) settles: the child exited or could not be spawned
ChildExit(w, k, x) ==
    /\ w \in active /\ k \in DOMAIN job[w] /\ job[w][k].pc = "child"
    /\ x \in Exits
    /\ exitOf' = [exitOf EXCEPT ![job[w][k].id] = x]
    /\ SetMem(w, JobFinally(Mem(w), k, ResultOf(x), CodeOf(x)))
    /\ UNCHANGED <<rows, txn, fails, fetchLimit, ops, acceptedBy, active, rvars, mvars>>

\* enqueueJob whose final write is awaited outside a try/catch: cb() is not
\* reached when the write throws
JobSetDone_uncaught(w, k, fate) ==
    /\ Turn(w, JobFlow(k)) /\ job[w][k].pc = "setDone"
    /\ fate \in FatesOf("query") /\ Fail(fate)
    /\ Executed(fate) => ~Blocked(w, {job[w][k].id})
    /\ LET j == job[w][k]
       IN Store(w, DbUpdate(w, fate, {j.id}, SetDone(j.result, j.code)))
    /\ SetMem(w, IF wrap(fate) = "throw"
                 THEN [Dequeued(w) EXCEPT !.job[k].pc = "thrown"]
                 ELSE QNext(Dequeued(w), k))
    /\ UNCHANGED <<fetchLimit, acceptedBy, exitOf, active, rvars, mvars>>

\* enqueueJob: await this.setJobStatus(id, STATUS_DONE, result, data) in a
\* try/catch, then cb()
JobSetDone(w, k, fate) ==
    /\ Turn(w, JobFlow(k)) /\ job[w][k].pc = "setDone"
    /\ fate \in FatesOf("query") /\ Fail(fate)
    /\ Executed(fate) => ~Blocked(w, {job[w][k].id})
    /\ LET j == job[w][k]
       IN Store(w, DbUpdate(w, fate, {j.id}, SetDone(j.result, j.code)))
    /\ SetMem(w, QNext(Dequeued(w), k))
    /\ UNCHANGED <<fetchLimit, acceptedBy, exitOf, active, rvars, mvars>>

-----------------------------------------------------------------------------
(***************************************************************************)
(* Requests to a Worker (jobd.js request handlers).  A handler that        *)
(* validates its input and throws changes nothing: for add-target,        *)
(* remove-target, set-target-concurrency and run-manual those cases are    *)
(* the guards here; poll, pause and continue take any targets field.       *)
(***************************************************************************)
MemOnly == UNCHANGED <<rows, txn, fails, fetchLimit, acceptedBy, exitOf, active, rvars, mvars>>

\* one more request
Op == ops < MaxOps /\ ops' = ops + 1

\* a name every JavaScript object inherits from Object.prototype, which makes
\* `name in this.targets` true whatever the targets are
ProtoNames == {"toString"}

\* Worker.hasTarget: return (target in this.targets)
HasTarget(S, t) == t \in DOMAIN S.targets \/ t \in ProtoNames

\* validateInputTargets(data, worker) returns: no targets field (null), or a
\* non-empty list of names that pass hasTarget
PassesValidation(S, T) == T = NoTargets \/ (T # {} /\ \A t \in T : HasTarget(S, t))

\* no targets field, or a non-empty list of targets the Worker serves
ValidTargets(w, T) ==
    \/ T = NoTargets
    \/ T # {} /\ T \subseteq DOMAIN targets[w]

TargetInputs == {NoTargets} \cup (SUBSET TargetNames \ {{}})

\* the targets fields that name served targets only
ValidInputs(w) == {T \in TargetInputs : ValidTargets(w, T)}

\* the targets fields of requests at large
AnyTargetInputs == {NoTargets} \cup (SUBSET (TargetNames \cup ProtoNames) \ {{}})

\* the request named a target the Worker S0 did not serve: it is noted with the
\* answer the handler gave
Noted(S0, S1, type, T, reply) ==
    IF T # NoTargets /\ ~(T \subseteq DOMAIN S0.targets)
    THEN [S1 EXCEPT !.lastBad = [n |-> @.n + 1, type |-> type, targets |-> T,
                                reply |-> reply]]
    ELSE S1

\* the run-manual inputs: one or two ids in ascending order, a repeat allowed
IdInputs == {<<i>> : i \in ReqIds} \cup {p \in ReqIds \X ReqIds : p[1] <= p[2]}

\* onPollRequest
OnPollRequest(S, T) ==
    IF ~PassesValidation(S, T) THEN Noted(S, S, "poll", T, "invalid target")
    ELSE Noted(S, Poll(SetPollTargets(S, T)), "poll", T, "ok")

ReqPoll(w, T) ==
    /\ w \in active /\ T \in AnyTargetInputs
    /\ SetMem(w, OnPollRequest(Mem(w), T))
    /\ Op /\ MemOnly

\* onRunManual, a new request in slot r
ReqRunManual(w, r, ids) ==
    /\ w \in active /\ req[w][r].st = "none"
    /\ r > 1 => req[w][r - 1].st # "none"
    /\ SetMem(w, OnRunManual(Mem(w), r, ids))
    /\ Op /\ MemOnly

RECURSIVE PauseTargets(_, _)
\* Worker.pauseTargets
PauseTargets(S, T) ==
    IF T = {} THEN S
    ELSE LET t == CHOOSE t \in T : TRUE IN
         PauseTargets(IF S.targets[t].paused THEN S
                      ELSE [QStop(S, t) EXCEPT !.targets[t].paused = TRUE], T \ {t})

RECURSIVE ContinueTargets(_, _)
\* Worker.continueTargets
ContinueTargets(S, T) ==
    IF T = {} THEN S
    ELSE LET t == CHOOSE t \in T : TRUE IN
         ContinueTargets(IF ~S.targets[t].paused THEN S
                         ELSE [QStart(S, t) EXCEPT !.targets[t].paused = FALSE], T \ {t})

AllIfNull(S, T) == IF T = NoTargets THEN DOMAIN S.targets ELSE T

\* onPause.  For an inherited name this.targets[target] is a function of
\* Object.prototype: queue and paused are undefined and queue.stop() throws a
\* TypeError, after the targets listed before it (done) were paused
OnPause(S, T, done) ==
    IF ~PassesValidation(S, T) THEN Noted(S, S, "pause", T, "invalid target")
    ELSE IF AllIfNull(S, T) \cap ProtoNames # {}
    THEN Noted(S, PauseTargets(S, done), "pause", T, "TypeError")
    ELSE Noted(S, PauseTargets(S, AllIfNull(S, T)), "pause", T, "ok")

ReqPause(w, T) ==
    /\ w \in active /\ T \in AnyTargetInputs
    /\ \E done \in SUBSET (T \cap DOMAIN targets[w]) :
          SetMem(w, OnPause(Mem(w), T, done))
    /\ Op /\ MemOnly

\* onContinue: continueTargets, then "poll just in case".  For an inherited
\* name paused is undefined and continueTargets goes on to the next target
OnContinue(S, T) ==
    IF ~PassesValidation(S, T) THEN Noted(S, S, "continue", T, "invalid target")
    ELSE Noted(S, Poll(ContinueTargets(S, AllIfNull(S, T) \ ProtoNames)), "continue", T, "ok")

ReqContinue(w, T) ==
    /\ w \in active /\ T \in AnyTargetInputs
    /\ SetMem(w, OnContinue(Mem(w), T))
    /\ Op /\ MemOnly

\* a new queue: Queue({concurrency, autostart: true}); queue.start() on the empty
\* queue ends at once
NewTarget(limit) == [paused |-> FALSE, concurrency |-> limit, jobs |-> <<>>,
                     pending |-> 0, running |-> FALSE]

\* the answer to an add-target request that named a served target, or to a
\* remove-target request that named a target with jobs in its queue, is noted
Held(S0, S1, type, t, reply) ==
    IF /\ t \in DOMAIN S0.targets
       /\ type = "remove-target" => QLength(S0.targets[t]) > 0
    THEN [S1 EXCEPT !.lastHeld = [n |-> @.n + 1, type |-> type, target |-> t,
                                 reply |-> reply, seen |-> @.seen \cup {type}]]
    ELSE S1

\* Worker.addTarget: throws for a name `in` this.targets, else the new queue
AddTarget(S, t, limit) ==
    IF HasTarget(S, t) THEN Held(S, S, "add-target", t, "already added")
    ELSE [S EXCEPT !.targets = [u \in (DOMAIN S.targets) \cup {t} |->
                                  IF u = t THEN NewTarget(limit) ELSE S.targets[u]]]

\* onAddTarget: validateInputTargetAndConcurrency (concurrency > 0), addTarget
ReqAddTarget(w, t, limit) ==
    /\ w \in active
    /\ SetMem(w, IF limit <= 0
                 THEN Held(Mem(w), Mem(w), "add-target", t, "Invalid concurrency value.")
                 ELSE AddTarget(Mem(w), t, limit))
    /\ Op /\ MemOnly

\* removeTarget without the check of the queue's length
RemoveTarget_anyway(S, t) ==
    IF ~HasTarget(S, t) \/ t \in ProtoNames THEN S
    ELSE Held(S, [S EXCEPT !.targets = Without(@, t)], "remove-target", t, "ok")

\* Worker.removeTarget: throws for a name not `in` this.targets and for a queue
\* with length > 0; for an inherited name queue is undefined and queue.length
\* throws a TypeError
RemoveTarget(S, t) ==
    IF ~HasTarget(S, t) \/ t \in ProtoNames THEN S
    ELSE IF QLength(S.targets[t]) > 0
    THEN Held(S, S, "remove-target", t, "queue is not empty")
    ELSE [S EXCEPT !.targets = Without(@, t)]

\* onRemoveTarget
ReqRemoveTarget(w, t) ==
    /\ w \in active
    /\ SetMem(w, RemoveTarget(Mem(w), t))
    /\ Op /\ MemOnly

\* the names add-target accepts and remove-target removes
Addable(w) == {t \in TargetNames : t \notin DOMAIN targets[w]}
Removable(w) == {t \in DOMAIN targets[w] : QLength(targets[w][t]) = 0}

\* onSetTargetConcurrency -> Worker.setTargetConcurrency
ReqSetTargetConcurrency(w, t, limit) ==
    /\ w \in active /\ t \in DOMAIN targets[w] /\ limit > 0
    /\ SetMem(w, [Mem(w) EXCEPT !.targets[t].concurrency = limit])
    /\ Op /\ MemOnly

-----------------------------------------------------------------------------
NewRow(st, t) == [status |-> st, target |-> t, result |-> "none", code |-> "none"]

\* jobs are created with status waiting or manual (README, "Creating jobs"):
\* the table starts with one of each, both of target a
InitRows == {[id \in 1..MaxId |->
                NewRow(IF id = 1 THEN STATUS_WAITING ELSE STATUS_MANUAL, "a")]}

\* the Workers ws run, each serving target a; `spent` storage failures have been spent
InitAll(rws, limit, tgts, ws, spent) ==
    /\ rows \in rws
    /\ txn = [w \in Workers |-> NoTxn]
    /\ fails = spent
    /\ fetchLimit = limit
    /\ ops = 0
    /\ targets = tgts
    /\ polling = [w \in Workers |-> FALSE]
    /\ nextpoll = [w \in Workers |-> {}]
    /\ gt = [w \in Workers |-> [f \in GtFlows |-> GtIdle]]
    /\ req = [w \in Workers |-> [r \in Reqs |-> ReqNone]]
    /\ jobPromises = [w \in Workers |-> EmptyFn]
    /\ job = [w \in Workers |-> EmptyFn]
    /\ dbq = [w \in Workers |-> <<>>]
    /\ lastBad = [w \in Workers |-> [n |-> 0, type |-> "", targets |-> {}, reply |-> ""]]
    /\ retriggered = [w \in Workers |-> FALSE]
    /\ lastHeld = [w \in Workers |-> [n |-> 0, type |-> "", target |-> "", reply |-> "",
                                        seen |-> {}]]
    /\ acceptedBy = [id \in RowIds |-> {}]
    /\ exitOf = [id \in RowIds |-> "none"]
    /\ active = ws

InitWith(tgts, ws, spent) == InitAll(InitRows, 0, tgts, ws, spent)

InitWorkers(ws, spent) ==
    InitWith([w \in Workers |-> IF w \in ws THEN [t \in {"a"} |-> NewTarget(MaxConc)]
                                ELSE EmptyFn], ws, spent)

\* the targets sections of configuration files: the names and their limits
RawTargets == UNION {[N -> 1..MaxConc] : N \in SUBSET (TargetNames \cup {NULL})}

\* config.parseWorkerConfig, the targets: the name 'null' throws, the values
\* (numeric and >= 1 here) are kept
ParseWorkerConfig(raw) ==
    IF NULL \in DOMAIN raw THEN [throws |-> TRUE, targets |-> EmptyFn]
    ELSE [throws |-> FALSE, targets |-> raw]

\* main: a configuration that does not parse ends the process; initWorker adds
\* a target for every parsed name
InitFromConfig(raw) ==
    LET cfg == ParseWorkerConfig(raw) IN
    IF cfg.throws THEN InitWith([w \in Workers |-> EmptyFn], {}, MaxFail)
    ELSE InitWith([w \in Workers |-> IF w = 1 THEN [t \in DOMAIN cfg.targets |->
                                                        NewTarget(cfg.targets[t])]
                                      ELSE EmptyFn], {1}, MaxFail)


-----------------------------------------------------------------------------
(***************************************************************************)
(* One Connection of a daemon (lib/server.js) and the RequestHandler       *)
(* behind it (lib/request-handler.js).                                     *)
(***************************************************************************)
MaxFrames == 2
MaxNo == 2

Nos == 0..MaxNo

\* the `no` of a message that carries none
NoNo == 0 - 1

\* initRequestHandler of jobd.js: every handler is an async function
WorkerHandlers == [t \in {"poll", "status", "run-manual", "pause", "continue",
                          "add-target", "remove-target", "set-target-concurrency"}
                     |-> "async"]

\* initRequestHandler of jobd-master.js: onPause and onContinue are plain functions
MasterHandlers == [t \in {"poke", "register-worker", "status", "run-manual", "pause",
                          "continue", "send-signal"}
                     |-> IF t \in {"pause", "continue"} THEN "sync" ELSE "async"]

\* RequestHandler.handlers
Handlers == IF daemon = "master" THEN MasterHandlers ELSE WorkerHandlers

RequestTypes == DOMAIN WorkerHandlers \cup DOMAIN MasterHandlers \cup {"nosuch"}

\* what arrives between two EOT bytes:
\*   request     a REQUEST that passes _parseMessage
\*   badrequest  a REQUEST that fails validateObjectSchema (with or without a no)
\*   badtype     JSON that is no array, or an array of an unexpected type
\*   notjson     bytes JSON.parse rejects
\*   ping, pong
\*   response    a RESPONSE that passes _parseMessage
Frames ==
    [kind : {"request"}, no : Nos, type : RequestTypes]
    \cup [kind : {"badrequest"}, no : Nos \cup {NoNo}, type : {""}]
    \cup [kind : {"badtype", "notjson", "ping", "pong"}, no : {NoNo}, type : {""}]
    \cup [kind : {"response"}, no : Nos, type : {""}]

\* Connection.send: socket.write; nothing leaves a socket that was destroyed
Send(S, m) == IF S.closed THEN S ELSE [S EXCEPT !.sent = Append(@, m)]

\* new ResponseMessage(no).setData(data) / .setError(message), in reply to frame i
ResponseMessage(i, no, kind) == [re |-> i, no |-> no, kind |-> kind]

PongMessage(i) == [re |-> i, no |-> NoNo, kind |-> "pong"]

Conn == [isAuthorized |-> isAuthorized, closed |-> closed, calls |-> calls, sent |-> sent,
         requestPromises |-> requestPromises, futures |-> futures]

SetConn(S) ==
    /\ isAuthorized' = S.isAuthorized
    /\ closed' = S.closed
    /\ calls' = S.calls
    /\ sent' = S.sent
    /\ requestPromises' = S.requestPromises
    /\ futures' = S.futures

\* the Promise sendRequest made for request number no settles
SettleFuture(S, no, state) ==
    [S EXCEPT !.futures = [k \in DOMAIN @ |->
                             IF @[k].no = no /\ @[k].state = "pending"
                             THEN [@[k] EXCEPT !.state = state] ELSE @[k]]]

RECURSIVE RejectAll(_, _)
\* the loop of _handleClose over this._requestPromises
RejectAll(S, nos) ==
    IF nos = {} THEN S
    ELSE RejectAll(SettleFuture(S, Min(nos), "Socket is closed"), nos \ {Min(nos)})

\* _handleClose that only emits 'close'
HandleCloseConn_emitOnly(S) == [S EXCEPT !.closed = TRUE]

\* Connection._handleClose: 'close' is emitted once, every outstanding request
\* is rejected and the table is emptied
HandleCloseConn(S) ==
    [RejectAll(S, S.requestPromises) EXCEPT !.closed = TRUE, !.requestPromises = {}]

\* Connection.close(): socket.end(), socket.destroy(), _handleClose()
Close(S) == HandleCloseConn(S)

\* _processChunks for a ResponseMessage: the request it answers is resolved and
\* taken off the table; an unexpected response is logged
ResolveResponse(S, no) ==
    IF no \in S.requestPromises
    THEN [SettleFuture(S, no, "resolved") EXCEPT !.requestPromises = @ \ {no}]
    ELSE S

UnknownType_no0(i, no) == ResponseMessage(i, 0, "error")

\* RequestHandler.process: no handler for message.requestType
UnknownType(i, no) == ResponseMessage(i, no, "error")

\* RequestHandler.process(message, connection): an async handler hands back a
\* Promise, and only a Promise is answered.  A plain handler that returns gets no
\* reply; one that throws is caught by the try of _processChunks, which logs.
Process(S, i, fr, out) ==
    IF fr.type \in DOMAIN Handlers
    THEN IF Handlers[fr.type] = "async"
         THEN [S EXCEPT !.calls[i] = "pending"]
         ELSE [S EXCEPT !.calls[i] = IF out = "throw" THEN "threw" ELSE "returned"]
    ELSE Send([S EXCEPT !.calls[i] = "unknown"], UnknownType(i, fr.no))

\* the loop body without the password check
ProcessMessage_open(S, i, fr, pw, out) ==
    CASE fr.kind = "notjson" -> S
      [] fr.kind \in {"badrequest", "badtype"} ->
            Send(S, ResponseMessage(i, 0, "error"))
      [] fr.kind = "ping" -> Send(S, PongMessage(i))
      [] fr.kind = "pong" -> S
      [] fr.kind = "response" -> ResolveResponse(S, fr.no)
      [] fr.kind = "request" -> Process([S EXCEPT !.isAuthorized = TRUE], i, fr, out)

\* Connection._processChunks, the body of its loop for one message
ProcessMessage(S, i, fr, pw, out) ==
    CASE fr.kind = "notjson" -> S
      [] fr.kind \in {"badrequest", "badtype"} ->
            Send(S, ResponseMessage(i, 0, "error"))
      [] fr.kind = "ping" -> Send(S, PongMessage(i))
      [] fr.kind = "pong" -> S
      [] fr.kind = "response" -> ResolveResponse(S, fr.no)
      [] fr.kind = "request" ->
            IF ~S.isAuthorized /\ pw # "good"
            THEN Close(Send([S EXCEPT !.calls[i] = "refused"],
                            ResponseMessage(i, fr.no, "error")))
            ELSE Process([S EXCEPT !.isAuthorized = TRUE], i, fr, out)

\* a message arrives on the socket.  pw tells whether the password a request
\* carries is the configured one (a missing password is a bad one); out is what
\* a plain handler does with its input, return or throw
Receive(fr, pw, out) ==
    /\ ~closed /\ Len(frames) < MaxFrames
    /\ fr \in Frames
    /\ pw # "good" => fr.kind = "request" /\ password
    /\ out # "return" => /\ fr.kind = "request" /\ fr.type \in DOMAIN Handlers
                         /\ Handlers[fr.type] = "sync"
                         /\ (isAuthorized \/ pw = "good")
    /\ frames' = Append(frames, fr)
    /\ rx' = Append(rx, [pw |-> pw, sends |-> Len(futures)])
    /\ LET i == Len(frames) + 1
       IN SetConn(ProcessMessage([Conn EXCEPT !.calls = Append(@, "none")], i, fr, pw, out))
    /\ UNCHANGED <<daemon, password, outgoing, localhost, link, fvars, wvars, mvars>>

\* the Promise of an async handler settles: result.then / .catch in process
HandlerSettles(i, how) ==
    /\ i \in DOMAIN calls /\ calls[i] = "pending"
    /\ how \in {"data", "error"}
    /\ SetConn(Send([Conn EXCEPT !.calls[i] = "settled"],
                    ResponseMessage(i, frames[i].no, how)))
    /\ UNCHANGED <<daemon, password, frames, outgoing, localhost, rx, link, fvars, wvars, mvars>>

MaxSends == 2

\* the daemon calls sendRequest on the connection.  The Worker does so on its
\* link to the Master (register-worker, jobd.js connect()); the Master does so
\* on the connections of its registry, on which register-worker was handled.
\* The first request sent carries the password and sets _isAuthorized
SendRequest ==
    /\ ~closed /\ Len(futures) < MaxSends
    /\ \/ daemon = "worker" /\ outgoing
       \/ /\ daemon = "master" /\ ~outgoing
          /\ \E i \in DOMAIN frames : /\ frames[i].type = "register-worker"
                                       /\ calls[i] \in {"pending", "settled"}
    /\ LET no == Len(futures) + 1
       IN SetConn([Send([Conn EXCEPT !.isAuthorized = TRUE],
                        [re |-> 0, no |-> no, kind |-> "request"])
                     EXCEPT !.requestPromises = @ \cup {no},
                            !.futures = Append(@, [no |-> no, state |-> "pending"])])
    /\ UNCHANGED <<daemon, password, frames, outgoing, localhost, rx, link, fvars, wvars, mvars>>

\* the socket emits 'close' or 'error': onClose / onError -> _handleClose
SocketCloses ==
    /\ ~closed
    /\ SetConn(HandleCloseConn(Conn))
    /\ UNCHANGED <<daemon, password, frames, outgoing, localhost, rx, link, fvars, wvars, mvars>>

\* connectToMaster() has called tryToConnect(true): the timer is set to 0
LinkStart == [st |-> "timer", left |-> 0, attempts |-> 0, closeListener |-> FALSE,
              handled |-> 0, dropped |-> 0]

RouterIdle ==
    /\ daemon = "worker" /\ password = FALSE /\ isAuthorized = TRUE /\ closed = FALSE
    /\ frames = <<>> /\ calls = <<>> /\ sent = <<>>
    /\ outgoing = FALSE /\ localhost = FALSE /\ rx = <<>>
    /\ requestPromises = {} /\ futures = <<>>
    /\ link = LinkStart
    /\ put = <<>> /\ wire = <<>> /\ data = <<>> /\ got = <<>>

\* the Connection constructor, then for an accepted socket setSocket, for the
\* Worker's link to the Master connect()
InitRouter ==
    /\ daemon \in {"worker", "master"}
    /\ password \in BOOLEAN
    /\ outgoing \in IF daemon = "worker" THEN BOOLEAN ELSE {FALSE}
    /\ localhost \in IF outgoing THEN {FALSE} ELSE BOOLEAN
    /\ isAuthorized = (~password \/ localhost)
    /\ closed = FALSE
    /\ frames = <<>> /\ calls = <<>> /\ sent = <<>> /\ rx = <<>>
    /\ requestPromises = {} /\ futures = <<>>
    /\ link = LinkStart
    /\ put = <<>> /\ wire = <<>> /\ data = <<>> /\ got = <<>>

NextRouter ==
    \/ \E fr \in Frames, pw \in {"good", "bad"}, out \in {"return", "throw"} :
            Receive(fr, pw, out)
    \/ \E i \in 1..MaxFrames, how \in {"data", "error"} : HandlerSettles(i, how)

\* the messages of a link on which both sides send requests: requests of one
\* type of each kind of handler, responses, pings
LinkFrames ==
    {fr \in Frames :
        \/ fr.kind = "request" /\ fr.type \in {"poll", "register-worker", "pause"}
        \/ fr.kind \in {"response", "ping"}}

NextLink ==
    \/ \E fr \in LinkFrames, pw \in {"good", "bad"}, out \in {"return", "throw"} :
            Receive(fr, pw, out)
    \/ \E i \in 1..MaxFrames, how \in {"data", "error"} : HandlerSettles(i, how)
    \/ SendRequest
    \/ SocketCloses

-----------------------------------------------------------------------------
(***************************************************************************)
(* The Worker's link to the Master (jobd.js connectToMaster): connect()    *)
(* makes a Connection, awaits the socket, sends register-worker, awaits    *)
(* the response and only then subscribes to 'close' and 'request-message'. *)
(* tryToConnect() sets the timer that calls connect().                     *)
(***************************************************************************)
MaxAttempts == 3
MaxLinkRequests == 2
\* master_reconnect_timeout, in ticks of the clock
ReconnectTimeout == 2

\* tryToConnect(): setTimeout(..., master_reconnect_timeout * 1000)
TryToConnect(L) == [L EXCEPT !.st = "timer", !.left = ReconnectTimeout]

\* time passes while the timer of tryToConnect runs
LTick ==
    /\ link.st = "timer" /\ link.left > 0
    /\ link' = [link EXCEPT !.left = @ - 1]
    /\ UNCHANGED <<daemon, password, isAuthorized, closed, frames, calls, sent, outgoing,
                   localhost, rx, requestPromises, futures, fvars, wvars, mvars>>

\* the timer fires: connect() makes a new Connection and calls connection.connect
LTimerFires ==
    /\ link.st = "timer" /\ link.left = 0 /\ link.attempts < MaxAttempts
    /\ link' = [link EXCEPT !.st = "connecting", !.attempts = @ + 1,
                            !.closeListener = FALSE]
    /\ UNCHANGED <<daemon, password, isAuthorized, closed, frames, calls, sent, outgoing,
                   localhost, rx, requestPromises, futures, fvars, wvars, mvars>>

\* the socket fails before it connects: connect() rejects and its catch calls
\* tryToConnect()
LConnectFails ==
    /\ link.st = "connecting"
    /\ link' = TryToConnect(link)
    /\ UNCHANGED <<daemon, password, isAuthorized, closed, frames, calls, sent, outgoing,
                   localhost, rx, requestPromises, futures, fvars, wvars, mvars>>

\* the socket connects: connect() sends register-worker and awaits the response
LConnected ==
    /\ link.st = "connecting"
    /\ link' = [link EXCEPT !.st = "registering"]
    /\ UNCHANGED <<daemon, password, isAuthorized, closed, frames, calls, sent, outgoing,
                   localhost, rx, requestPromises, futures, fvars, wvars, mvars>>

\* the response to register-worker arrives, be it 'ok' or an error: connect()
\* subscribes to 'close' and to 'request-message'
LRegisterAnswered ==
    /\ link.st = "registering"
    /\ link' = [link EXCEPT !.st = "up", !.closeListener = TRUE]
    /\ UNCHANGED <<daemon, password, isAuthorized, closed, frames, calls, sent, outgoing,
                   localhost, rx, requestPromises, futures, fvars, wvars, mvars>>

\* a request of the Master arrives on the link: 'request-message' is emitted,
\* to the RequestHandler if connect() has subscribed it, else to nobody
LRequest ==
    /\ link.st \in {"registering", "up"}
    /\ link.handled + link.dropped < MaxLinkRequests
    /\ link' = IF link.st = "up" THEN [link EXCEPT !.handled = @ + 1]
               ELSE [link EXCEPT !.dropped = @ + 1]
    /\ UNCHANGED <<daemon, password, isAuthorized, closed, frames, calls, sent, outgoing,
                   localhost, rx, requestPromises, futures, fvars, wvars, mvars>>

\* the link closes: _handleClose emits 'close' once and rejects the outstanding
\* register-worker.  With the listener of connect() subscribed, tryToConnect()
\* runs; while the response is awaited nobody listens, the rejection is caught
\* and logged, and the listener is subscribed after the event
LClose ==
    /\ link.st \in {"registering", "up"}
    /\ link' = IF link.closeListener THEN TryToConnect(link)
               ELSE [link EXCEPT !.st = "closed", !.closeListener = TRUE]
    /\ UNCHANGED <<daemon, password, isAuthorized, closed, frames, calls, sent, outgoing,
                   localhost, rx, requestPromises, futures, fvars, wvars, mvars>>

NextReconnect ==
    \/ LTick
    \/ LTimerFires
    \/ LConnectFails
    \/ LConnected
    \/ LRegisterAnswered
    \/ LRequest
    \/ LClose

-----------------------------------------------------------------------------
(***************************************************************************)
(* The Master's WorkersList (lib/workers-list.js): the registry of Workers *)
(* and poke, which forwards poll requests through a throttle.              *)
(***************************************************************************)
MaxTime == 3
MaxPokes == 3
\* entries of the registry, where a connection may register more than once
MaxEntries == 2
\* poke_throttle_interval, in ticks of the clock
Wait == 2

Conns == {1, 2}

\* the value of lastCallTime and of timerId while they are undefined
Undefined == 0 - 1

MasterMem == [workers |-> workers, targetsToPoke |-> targetsToPoke,
              targetsWaitingToPoke |-> targetsWaitingToPoke, thr |-> thr, polls |-> polls]

SetMasterMem(M) ==
    /\ workers' = M.workers
    /\ targetsToPoke' = M.targetsToPoke
    /\ targetsWaitingToPoke' = M.targetsWaitingToPoke
    /\ thr' = M.thr
    /\ polls' = M.polls

\* WorkersList._pokeWorkerConnection: sendRequest(new RequestMessage('poll', {targets}))
PokeWorkerConnection(M, c, T) == [M EXCEPT !.polls[c] = Append(@, T)]

RECURSIVE PokeEach(_, _, _)
\* the loop of _pokeWorkers over this.workers
PokeEach(M, ws, T) ==
    IF ws = <<>> THEN M
    ELSE LET intrs == Head(ws).targets \cap T
         IN PokeEach(IF intrs # {} THEN PokeWorkerConnection(M, Head(ws).connection, intrs)
                     ELSE M, Tail(ws), T)

\* _pokeWorkers without the loop that remembers the targets nobody serves
PokeWorkersBody_forget(M) ==
    PokeEach([M EXCEPT !.targetsToPoke = {}], M.workers, M.targetsToPoke)

\* the function _pokeWorkers wraps
PokeWorkersBody(M) ==
    LET T     == M.targetsToPoke
        found == UNION {M.workers[i].targets \cap T : i \in DOMAIN M.workers}
        M1    == PokeEach([M EXCEPT !.targetsToPoke = {}], M.workers, T)
    IN [M1 EXCEPT !.targetsWaitingToPoke = @ \cup (T \ found)]

\* ---- lodash throttle(func, wait, {leading: true}): debounce with maxWait = wait
\*      and both edges

ShouldInvoke(t, time) ==
    \/ t.lastCallTime = Undefined
    \/ time - t.lastCallTime >= Wait
    \/ time - t.lastCallTime < 0
    \/ time - t.lastInvokeTime >= Wait

RemainingWait(t, time) ==
    Min({Wait - (time - t.lastCallTime), Wait - (time - t.lastInvokeTime)})

InvokeFunc(M, time) ==
    PokeWorkersBody([M EXCEPT !.thr.lastArgs = FALSE, !.thr.lastInvokeTime = time])

Debounced_leadingOnly(M, time) ==
    LET isInvoking == ShouldInvoke(M.thr, time)
        M1 == [M EXCEPT !.thr.lastCallTime = time]
    IN IF isInvoking /\ M.thr.timerAt = Undefined
       THEN InvokeFunc([M1 EXCEPT !.thr.lastInvokeTime = time,
                                  !.thr.timerAt = time + Wait], time)
       ELSE M1

\* a call of the throttled function
Debounced(M, time) ==
    LET isInvoking == ShouldInvoke(M.thr, time)
        M1 == [M EXCEPT !.thr.lastArgs = TRUE, !.thr.lastCallTime = time]
    IN IF isInvoking /\ M.thr.timerAt = Undefined
       THEN \* leadingEdge
            InvokeFunc([M1 EXCEPT !.thr.lastInvokeTime = time,
                                  !.thr.timerAt = time + Wait], time)
       ELSE IF isInvoking
       THEN \* the timer is late: it is set again and the function invoked
            InvokeFunc([M1 EXCEPT !.thr.timerAt = time + Wait], time)
       ELSE IF M.thr.timerAt = Undefined
       THEN [M1 EXCEPT !.thr.timerAt = time + Wait]
       ELSE M1

\* timerExpired, and trailingEdge when it is time to invoke
TimerExpired(M, time) ==
    IF ShouldInvoke(M.thr, time)
    THEN LET M1 == [M EXCEPT !.thr.timerAt = Undefined]
         IN IF M.thr.lastArgs THEN InvokeFunc(M1, time)
            ELSE M1
    ELSE [M EXCEPT !.thr.timerAt = time + RemainingWait(M.thr, time)]

\* WorkersList.poke(targets)
Poke(M, T, time) == Debounced([M EXCEPT !.targetsToPoke = @ \cup T], time)

\* add that pokes the new Worker and leaves the targets in the deferred set
Add_keepDeferred(M, c, T) ==
    LET M1   == [M EXCEPT !.workers = Append(@, [connection |-> c, targets |-> T])]
        intrs == M.targetsWaitingToPoke \cap T
    IN IF intrs # {} THEN PokeWorkerConnection(M1, c, intrs) ELSE M1

\* add that takes every deferred target off the set
Add_clearAll(M, c, T) ==
    LET M1   == [M EXCEPT !.workers = Append(@, [connection |-> c, targets |-> T])]
        intrs == M.targetsWaitingToPoke \cap T
    IN IF intrs # {}
       THEN [PokeWorkerConnection(M1, c, intrs) EXCEPT !.targetsWaitingToPoke = {}]
       ELSE M1

\* WorkersList.add(connection, {targets, name})
Add(M, c, T) ==
    LET M1   == [M EXCEPT !.workers = Append(@, [connection |-> c, targets |-> T])]
        intrs == M.targetsWaitingToPoke \cap T
    IN IF intrs # {}
       THEN [PokeWorkerConnection(M1, c, intrs) EXCEPT !.targetsWaitingToPoke = @ \ intrs]
       ELSE M1

\* a 'close' listener that takes only the first entry of the connection off
\* the list
Remove_first(M, c) ==
    LET ws == M.workers
        i  == Min({j \in DOMAIN ws : ws[j].connection = c})
    IN IF \A j \in DOMAIN ws : ws[j].connection # c THEN M
       ELSE [M EXCEPT !.workers = SubSeq(ws, 1, i - 1) \o SubSeq(ws, i + 1, Len(ws))]

\* connection.on('close') of add: the Worker is taken off the list
Remove(M, c) == [M EXCEPT !.workers = SelectSeq(@, LAMBDA x : x.connection # c)]

Registered(ws) == {ws[i].connection : i \in DOMAIN ws}

\* the connections that serve one of the targets T
Serving(ws, T) == {ws[i].connection : i \in {j \in DOMAIN ws : ws[j].targets \cap T # {}}}

\* ---- WorkersList._runManualCall(MANUAL_CALL_TYPE_RUN, jobs), behind the
\*      Master's run-manual request

MaxRunJobs == 2

\* the job lists of a run-manual request: [id, target] with distinct ids
JobLists ==
    {<<>>} \cup {<<[id |-> i, target |-> t]>> : i \in 1..MaxRunJobs, t \in TargetNames}
           \cup {<<[id |-> p[1], target |-> t[1]]>> \o <<[id |-> p[2], target |-> t[2]]>> :
                   p \in {q \in (1..MaxRunJobs) \X (1..MaxRunJobs) : q[1] # q[2]},
                   t \in TargetNames \X TargetNames}

NoResponse == [kind |-> "none", jobs |-> EmptyFn, errors |-> EmptyFn]

RunIdle == [st |-> "idle", jobs |-> <<>>, calls |-> <<>>, exceptions |-> <<>>,
            resp |-> NoResponse]

\* targetWorkers[target]: the indexes of the workers that advertise the target
TargetWorkers(ws, t) == {i \in DOMAIN ws : t \in ws[i].targets}

\* the ways sample() can pick a worker index for every job; 0 for a job whose
\* target nobody serves
Picks(ws, jobs) ==
    {p \in [DOMAIN jobs -> 0..Len(ws)] :
        \A j \in DOMAIN jobs :
            IF TargetWorkers(ws, jobs[j].target) = {} THEN p[j] = 0
            ELSE p[j] \in TargetWorkers(ws, jobs[j].target)}

\* the ids of the jobs of the list that were given to worker index i, in order
IdsFor(jobs, p, i) ==
    LET js == SelectSeq2(SetToSeq(DOMAIN jobs), {j \in DOMAIN jobs : p[j] = i})
    IN [k \in DOMAIN js |-> jobs[js[k]].id]

\* promises / jobsByPromise: one sendRequest('run-manual', {ids}) per key of
\* callMap, the keys taken in ascending order
CallsFor(ws, jobs, p) ==
    LET is == SetToSeq({p[j] : j \in DOMAIN jobs} \ {0})
    IN [k \in DOMAIN is |-> [connection |-> ws[is[k]].connection,
                             ids |-> IdsFor(jobs, p, is[k]),
                             status |-> "pending", errs |-> {}]]

NotFoundMessage(t) == "worker serving target '" \o t \o "' not found"

Merge(f, g) == [x \in (DOMAIN f) \cup (DOMAIN g) |-> IF x \in DOMAIN g THEN g[x] ELSE f[x]]

RECURSIVE Collect(_, _, _)
\* the loop over the results of Promise.allSettled: a fulfilled call's jobs and
\* errors are merged into the response.  A call fulfilled with an error
\* response has data null, so `const {jobs, errors} = responseMessage.data`
\* throws; for a rejected call `for (let jobId of jobIds)` iterates a number
\* and throws
Collect(cs, i, resp) ==
    IF i > Len(cs) THEN resp
    ELSE LET c == cs[i] IN
         IF c.status = "data"
         THEN Collect(cs, i + 1,
                 [resp EXCEPT
                    !.jobs = Merge(@, [id \in Range(c.ids) \ c.errs |-> "result"]),
                    !.errors = Merge(@, [id \in c.errs |-> "error of the worker"])])
         ELSE [kind |-> "error", jobs |-> EmptyFn, errors |-> EmptyFn]

\* _runManualCall after Promise.allSettled: the response, or the throw
RunManualResponse(R) ==
    LET r == Collect(R.calls, 1, [NoResponse EXCEPT !.kind = "data"])
    IN IF r.kind = "error" THEN r
       ELSE [r EXCEPT !.errors =
               Merge(@, [id \in Range(R.exceptions) |->
                           NotFoundMessage((CHOOSE j \in Range(R.jobs) : j.id = id).target)])]

\* the continuation of `await Promise.allSettled(promises)` runs once every
\* call has settled
WhenAllSettled(R) ==
    IF R.st = "waiting" /\ \A i \in DOMAIN R.calls : R.calls[i].status # "pending"
    THEN [R EXCEPT !.st = "answered", !.resp = RunManualResponse(R)]
    ELSE R

\* _runManualCall up to `await Promise.allSettled(promises)`
RunManualCall(ws, jobs, p) ==
    WhenAllSettled([st |-> "waiting", jobs |-> jobs, calls |-> CallsFor(ws, jobs, p),
                    exceptions |-> [k \in DOMAIN IdsFor(jobs, p, 0) |-> IdsFor(jobs, p, 0)[k]],
                    resp |-> NoResponse])

\* Connection._handleClose of connection c: its outstanding requests are rejected
HandleClose(R, c) ==
    WhenAllSettled([R EXCEPT !.calls =
        [i \in DOMAIN @ |-> IF @[i].connection = c /\ @[i].status = "pending"
                            THEN [@[i] EXCEPT !.status = "rejected"] ELSE @[i]]])

\* ---- the windows of the throttle, kept for the properties: a call that is
\*      invoked at once opens a window of Wait ticks; the window ends when its
\*      timer runs

NoWin == [open |-> FALSE, start |-> 0, T |-> {}, n |-> 0, same |-> TRUE,
          stable |-> {}, fwd |-> [c \in Conns |-> 0]]

\* win after a call poke(T) at the time `now`
WinAfterPoke(T) ==
    IF ShouldInvoke(thr, now)
    THEN [open |-> TRUE, start |-> now, T |-> T, n |-> 1, same |-> TRUE,
          stable |-> Serving(workers, T), fwd |-> [c \in Conns |-> Len(polls[c])]]
    ELSE IF win.open THEN [win EXCEPT !.n = @ + 1, !.same = @ /\ T = win.T]
    ELSE win

\* the window as it ended: fwd counts the poll requests each connection was sent
\* since the window opened
Ended(w, p) == [w EXCEPT !.open = FALSE, !.fwd = [c \in Conns |-> Len(p[c]) - w.fwd[c]]]

\* Node runs the timers that are due before it reads its sockets
TimerDue == thr.timerAt # Undefined /\ now >= thr.timerAt

TargetSets == SUBSET TargetNames \ {{}}

\* a poke request reaches the Master: onPoke -> WorkersList.poke
MPoke(T) ==
    /\ pokes < MaxPokes /\ ~TimerDue
    /\ T \in TargetSets
    /\ pokes' = pokes + 1
    /\ SetMasterMem(Poke(MasterMem, T, now))
    /\ win' = WinAfterPoke(T)
    /\ lastWin' = IF ShouldInvoke(thr, now) /\ win.open THEN Ended(win, polls) ELSE lastWin
    /\ UNCHANGED <<now, gone, mrun, lastReg, wvars, rvars>>

\* the timer of the throttle runs
MTimer ==
    /\ TimerDue
    /\ SetMasterMem(TimerExpired(MasterMem, now))
    /\ IF win.open /\ thr'.timerAt = Undefined
       THEN win' = NoWin /\ lastWin' = Ended(win, polls')
       ELSE UNCHANGED <<win, lastWin>>
    /\ UNCHANGED <<now, pokes, gone, mrun, lastReg, wvars, rvars>>

\* a targets field that is no array, and a list with an element that is no string
NotArray == {"#object"}
NotStrings == {"a", "#7"}

\* the targets fields of register-worker requests
RegisterInputs == TargetSets \cup {NoTargets, {}, NotArray, NotStrings}

\* validateInputTargetsListFormat: an array, not empty, of strings
ListFormatOk(T) == T # {} /\ T \subseteq TargetNames

\* onRegisterWorker(data, connection): validateInputTargets(data, null) returns
\* null for a request without targets and throws for a list of bad format; a
\* name that is no string throws; then workers.add and 'ok'
OnRegisterWorker(M, c, T, named) ==
    IF T # NoTargets /\ ~ListFormatOk(T) THEN [M |-> M, reply |-> "bad targets"]
    ELSE IF ~named THEN [M |-> M, reply |-> "name is missing or invalid"]
    ELSE [M |-> Add(M, c, T), reply |-> "ok"]

\* a register-worker request reaches the Master on connection c
MRegister(c, T, named) ==
    /\ c \in Conns \ (Registered(workers) \cup gone)
    /\ LET r == OnRegisterWorker(MasterMem, c, T, named)
       IN /\ SetMasterMem(r.M)
          /\ lastReg' = [connection |-> c, targets |-> T, named |-> named,
                         reply |-> r.reply]
    /\ UNCHANGED <<now, pokes, gone, mrun, win, lastWin, wvars, rvars>>

\* a register-worker request on a connection that is registered already: add
\* pushes one more entry for it
MRegisterAgain(c, T) ==
    /\ c \in Registered(workers) /\ Len(workers) < MaxEntries
    /\ T \in TargetSets
    /\ LET r == OnRegisterWorker(MasterMem, c, T, TRUE)
       IN /\ SetMasterMem(r.M)
          /\ lastReg' = [connection |-> c, targets |-> T, named |-> TRUE,
                         reply |-> r.reply]
    /\ UNCHANGED <<now, pokes, gone, mrun, win, lastWin, wvars, rvars>>

\* the mark of a ping among the messages sent to a connection
Ping == {"#ping"}

\* WorkersList.sendPings, run by the Master's ping timer
MSendPings ==
    /\ pokes < MaxPokes
    /\ pokes' = pokes + 1
    /\ polls' = [c \in Conns |-> IF c \in Registered(workers)
                                  THEN Append(polls[c], Ping) ELSE polls[c]]
    /\ UNCHANGED <<now, workers, targetsToPoke, targetsWaitingToPoke, thr,
                   gone, mrun, lastReg, win, lastWin, wvars, rvars>>

\* the connection of a registered Worker closes
MClose(c) ==
    /\ c \in Registered(workers)
    /\ SetMasterMem(Remove(MasterMem, c))
    /\ gone' = gone \cup {c}
    /\ mrun' = HandleClose(mrun, c)
    /\ win' = [win EXCEPT !.stable = @ \ {c}]
    /\ UNCHANGED <<now, pokes, lastReg, lastWin, wvars, rvars>>

\* a run-manual request reaches the Master: onRunManual -> WorkersList.runManual
MRunManual(jobs) ==
    /\ mrun.st = "idle"
    /\ jobs \in JobLists
    /\ \E p \in Picks(workers, jobs) : mrun' = RunManualCall(workers, jobs, p)
    /\ UNCHANGED <<now, workers, targetsToPoke, targetsWaitingToPoke, thr, polls, pokes,
                   gone, lastReg, win, lastWin, wvars, rvars>>

\* the Worker answers the i-th run-manual call of the Master: with the report
\* of its onRunManual, errs being the ids it reports under errors, or, when its
\* handler threw, with an error response
MWorkerResponds(i, failed, errs) ==
    /\ mrun.st = "waiting" /\ i \in DOMAIN mrun.calls
    /\ mrun.calls[i].status = "pending"
    /\ errs \subseteq Range(mrun.calls[i].ids) /\ (failed => errs = {})
    /\ mrun' = WhenAllSettled([mrun EXCEPT
                 !.calls[i].status = IF failed THEN "error" ELSE "data",
                 !.calls[i].errs = errs])
    /\ UNCHANGED <<now, workers, targetsToPoke, targetsWaitingToPoke, thr, polls, pokes,
                   gone, lastReg, win, lastWin, wvars, rvars>>

\* time passes
Tick ==
    /\ now < MaxTime /\ ~TimerDue
    /\ now' = now + 1
    /\ UNCHANGED <<workers, targetsToPoke, targetsWaitingToPoke, thr, polls, pokes,
                   gone, mrun, lastReg, win, lastWin, wvars, rvars>>

MasterIdle ==
    /\ now = 0 /\ workers = <<>> /\ targetsToPoke = {} /\ targetsWaitingToPoke = {}
    /\ thr = [lastCallTime |-> Undefined, lastInvokeTime |-> 0, lastArgs |-> FALSE,
              timerAt |-> Undefined]
    /\ polls = [c \in Conns |-> <<>>]
    /\ pokes = 0 /\ gone = {} /\ mrun = RunIdle /\ win = NoWin /\ lastWin = NoWin
    /\ lastReg = [connection |-> 0, targets |-> {}, named |-> FALSE, reply |-> ""]

NextMaster ==
    \/ \E T \in TargetSets : MPoke(T)
    \/ MTimer
    \/ \E c \in Conns, T \in TargetSets, named \in BOOLEAN : MRegister(c, T, named)
    \/ \E c \in Conns : MClose(c)
    \/ Tick

-----------------------------------------------------------------------------
(***************************************************************************)
(* The specifications.                                                     *)
(***************************************************************************)
Init == InitWorkers({1}, 0) /\ RouterIdle /\ MasterIdle

StorageStep(w) ==
    \/ \E f \in GtFlows, fate \in Fates : GtBegin(w, f, fate)
    \/ \E f \in GtFlows, fate \in Fates : GtSelect(w, f, fate)
    \/ \E f \in GtFlows, fate \in Fates : GtUpdAcc(w, f, fate)
    \/ \E f \in GtFlows, fate \in Fates : GtUpdIgn(w, f, fate)
    \/ \E f \in GtFlows, fate \in Fates : GtCommit(w, f, fate)
    \/ \E k \in JobKeys, fate \in Fates : JobSetRunning(w, k, fate)
    \/ \E k \in JobKeys, fate \in Fates : JobSetDone(w, k, fate)

Next ==
    \E w \in Workers :
        \/ StorageStep(w)
        \/ \E k \in JobKeys, x \in Exits : ChildExit(w, k, x)
        \/ \E T \in ValidInputs(w) : ReqPoll(w, T)
        \/ \E r \in Reqs, ids \in IdInputs : ReqRunManual(w, r, ids)
        \/ \E T \in ValidInputs(w) : ReqPause(w, T)
        \/ \E T \in ValidInputs(w) : ReqContinue(w, T)
        \/ \E t \in Addable(w), c \in 1..MaxConc : ReqAddTarget(w, t, c)
        \/ \E t \in Removable(w) : ReqRemoveTarget(w, t)
        \/ \E t \in TargetNames, c \in 1..MaxConc : ReqSetTargetConcurrency(w, t, c)

Spec == Init /\ [][Next]_vars

\* two Workers on one table that take poll requests and run-manual requests
\* for one row; the storage does not fail and the jobs succeed
InitTwo == InitWorkers({1, 2}, MaxFail) /\ RouterIdle /\ MasterIdle

NextTwo ==
    \E w \in Workers :
        \/ StorageStep(w)
        \/ \E k \in JobKeys : ChildExit(w, k, "0")
        \/ ReqPoll(w, NoTargets)
        \/ \E id \in RowIds : ReqRunManual(w, 1, <<id>>)

SpecTwo == InitTwo /\ [][NextTwo]_vars

\* one Worker that takes poll, pause and continue requests with any targets
\* field, served or not, while targets are added and removed; the storage does
\* not fail and the jobs succeed
InitTargets == InitWorkers({1}, MaxFail) /\ RouterIdle /\ MasterIdle

NextTargets ==
    \E w \in Workers :
        \/ StorageStep(w)
        \/ \E k \in JobKeys : ChildExit(w, k, "0")
        \/ \E T \in AnyTargetInputs : ReqPoll(w, T)
        \/ \E T \in AnyTargetInputs : ReqPause(w, T)
        \/ \E T \in AnyTargetInputs : ReqContinue(w, T)
        \/ \E t \in TargetNames, c \in 1..MaxConc : ReqAddTarget(w, t, c)
        \/ \E t \in TargetNames : ReqRemoveTarget(w, t)

SpecTargets == InitTargets /\ [][NextTargets]_vars

\* one Worker with mysql_fetch_limit 0, 1 or 2 and three waiting rows of target
\* a, taking poll, add-target and remove-target requests; storage calls may
\* fail and the jobs succeed
WaitingRows == {[id \in 1..MaxRows |-> NewRow(STATUS_WAITING, "a")]}

InitLimit ==
    /\ \E limit \in 0..MaxId :
          InitAll(WaitingRows, limit, [w \in Workers |-> IF w = 1
                                         THEN [t \in {"a"} |-> NewTarget(MaxConc)]
                                         ELSE EmptyFn], {1}, 0)
    /\ RouterIdle /\ MasterIdle

NextLimit ==
    \E w \in Workers :
        \/ StorageStep(w)
        \/ \E k \in JobKeys : ChildExit(w, k, "0")
        \/ \E T \in ValidInputs(w) : ReqPoll(w, T)
        \/ \E c \in 1..MaxConc : ReqAddTarget(w, "a", c)
        \/ ReqRemoveTarget(w, "a")

SpecLimit == InitLimit /\ [][NextLimit]_vars

\* one Worker that serves targets a and b with one slot each and a table of
\* waiting rows, two of target a and one of target b; it takes poll requests
\* with or without served targets and remove-target for b; storage calls may
\* fail and the jobs succeed
MixedRows == {[id \in 1..MaxRows |->
                 NewRow(STATUS_WAITING, IF id = MaxRows THEN "b" ELSE "a")]}

InitMixed ==
    /\ InitAll(MixedRows, 0, [w \in Workers |-> IF w = 1
                                THEN [t \in TargetNames |-> NewTarget(1)]
                                ELSE EmptyFn], {1}, 0)
    /\ RouterIdle /\ MasterIdle

NextMixed ==
    \E w \in Workers :
        \/ StorageStep(w)
        \/ \E k \in JobKeys : ChildExit(w, k, "0")
        \/ \E T \in ValidInputs(w) : ReqPoll(w, T)
        \/ ReqRemoveTarget(w, "b")

SpecMixed == InitMixed /\ [][NextMixed]_vars

\* one Worker started from a configuration file that takes poll, add-target
\* and remove-target requests; the storage does not fail and the jobs succeed
InitConfig == (\E raw \in RawTargets : InitFromConfig(raw)) /\ RouterIdle /\ MasterIdle

NextConfig ==
    \E w \in Workers :
        \/ StorageStep(w)
        \/ \E k \in JobKeys : ChildExit(w, k, "0")
        \/ ReqPoll(w, NoTargets)
        \/ \E t \in TargetNames \cup {NULL}, c \in 0..MaxConc : ReqAddTarget(w, t, c)
        \/ \E t \in TargetNames \cup {NULL} : ReqRemoveTarget(w, t)

SpecConfig == InitConfig /\ [][NextConfig]_vars

\* two Workers and the Master they register with; Worker w's connection to
\* the Master is connection w.  connectToMaster sends register-worker with
\* worker.getTargets(); `named` says whether the request carries a name
WRegister(w, named) ==
    /\ w \in active /\ DOMAIN targets[w] # {}
    /\ MRegister(w, DOMAIN targets[w], named)

InitFleet == InitWorkers({1, 2}, MaxFail) /\ RouterIdle /\ MasterIdle

NextFleet ==
    \/ \E w \in Workers, named \in BOOLEAN : WRegister(w, named)
    \/ \E c \in Conns : MClose(c)
    \/ \E w \in Workers, t \in TargetNames, c \in 1..MaxConc : ReqAddTarget(w, t, c)
    \/ \E w \in Workers, t \in TargetNames : ReqRemoveTarget(w, t)

SpecFleet == InitFleet /\ [][NextFleet]_vars

\* the Connection and the RequestHandler of one daemon
InitR == InitWorkers({}, 0) /\ InitRouter /\ MasterIdle

SpecRouter == InitR /\ [][NextRouter]_vars

\* a Connection on which the daemon also sends requests, and which may close
SpecLink == InitR /\ [][NextLink]_vars

\* the Master's WorkersList
InitM == InitWorkers({}, 0) /\ RouterIdle /\ MasterIdle

SpecMaster == InitM /\ [][NextMaster]_vars

-----------------------------------------------------------------------------
(***************************************************************************)
(* The bytes of a Connection: send() writes the JSON text of a message and *)
(* the separator, the receiver appends each chunk of the stream to its     *)
(* buffer and cuts the buffer at the separators.  A message of kind m is   *)
(* written as m bytes of value EOT + m, so texts have different lengths    *)
(* and no text holds the separator (JSON.stringify escapes control         *)
(* characters).                                                            *)
(***************************************************************************)
EOT == 4

\* how many messages the peer sends
MaxMsgs == 3

\* the kinds of message, and the longest chunk of the stream
MaxKinds == 3
MaxChunk == 4

Messages == 1..MaxKinds

\* JSON.stringify(message.getAsObject())
Stringify(m) == [i \in 1..m |-> EOT + m]

\* JSON.parse(rawMessage.toString('utf-8')): the message, or none when the
\* text is no message (the error is logged and the loop goes on)
Parse(raw) == IF \E m \in Messages : Stringify(m) = raw
              THEN <<CHOOSE m \in Messages : Stringify(m) = raw>>
              ELSE <<>>

\* Buffer.concat([Buffer.from(json), Buffer.from([EOT])])
Encode(m) == Stringify(m) \o <<EOT>>

\* the bytes written for a list of messages
RECURSIVE Bytes(_)
Bytes(ms) == IF ms = <<>> THEN <<>> ELSE Encode(Head(ms)) \o Bytes(Tail(ms))

\* Buffer.indexOf(EOT, offset), positions counted from 0
IndexOf(d, offset) ==
    IF \E i \in offset..(Len(d) - 1) : d[i + 1] = EOT
    THEN Min({i \in offset..(Len(d) - 1) : d[i + 1] = EOT})
    ELSE 0 - 1

\* Buffer.slice(from, to), positions counted from 0
Slice(d, from, to) == SubSeq(d, from + 1, to)

\* one pass of the loop only: the first message of the buffer
Cut_first(d, offset, messages) ==
    LET eotPos == IndexOf(d, offset)
    IN  IF eotPos # 0 - 1
        THEN [offset |-> eotPos + 1,
              messages |-> Append(messages, Slice(d, offset, eotPos))]
        ELSE [offset |-> offset, messages |-> messages]

\* the do-while loop of _processChunks
RECURSIVE Cut(_, _, _)
Cut(d, offset, messages) ==
    LET eotPos == IndexOf(d, offset)
        found == eotPos # 0 - 1
        off2 == IF found THEN eotPos + 1 ELSE offset
        msgs2 == IF found THEN Append(messages, Slice(d, offset, eotPos))
                 ELSE messages
    IN  IF found /\ off2 < Len(d) - 1
        THEN Cut(d, off2, msgs2)
        ELSE [offset |-> off2, messages |-> msgs2]

\* the messages parsed from a list of cuts, in order
RECURSIVE Parsed(_)
Parsed(raws) == IF raws = <<>> THEN <<>>
                ELSE Parse(Head(raws)) \o Parsed(Tail(raws))

\* the peer's send(): socket.write of the text and the separator
PeerSend(m) ==
    /\ Len(put) < MaxMsgs
    /\ put' = Append(put, m)
    /\ wire' = wire \o Encode(m)
    /\ UNCHANGED <<data, got, daemon, password, isAuthorized, closed, frames, calls,
                   sent, outgoing, localhost, rx, requestPromises, futures, link,
                   wvars, mvars>>

\* onData with a chunk of n bytes: _appendToBuffer, then _processChunks
OnData(n) ==
    /\ n <= Len(wire)
    /\ LET buf == data \o SubSeq(wire, 1, n)
           c == Cut(buf, 0, <<>>)
       IN  /\ data' = IF c.offset # 0 THEN Slice(buf, c.offset, Len(buf)) ELSE buf
           /\ got' = got \o Parsed(c.messages)
    /\ wire' = SubSeq(wire, n + 1, Len(wire))
    /\ UNCHANGED <<put, daemon, password, isAuthorized, closed, frames, calls,
                   sent, outgoing, localhost, rx, requestPromises, futures, link,
                   wvars, mvars>>

NextFraming ==
    \/ \E m \in Messages : PeerSend(m)
    \/ \E n \in 1..MaxChunk : OnData(n)

\* one direction of a Connection, the stream split into chunks in every way
SpecFraming == InitM /\ [][NextFraming]_vars

-----------------------------------------------------------------------------

\* the Master taking register-worker requests of any form, while targets are
\* poked and connections close
NextRegister ==
    \/ \E c \in Conns, T \in RegisterInputs, named \in BOOLEAN : MRegister(c, T, named)
    \/ \E c \in Conns : MClose(c)
    \/ \E T \in TargetSets : MPoke(T)

SpecRegister == InitM /\ [][NextRegister]_vars

\* the Master's registry with connections that register more than once, the
\* pokes, pings and one run-manual request it sends to the registered Workers
NextRegistry ==
    \/ \E c \in Conns, T \in TargetSets : MRegister(c, T, TRUE)
    \/ \E c \in Conns, T \in TargetSets : MRegisterAgain(c, T)
    \/ \E c \in Conns : MClose(c)
    \/ MPoke(TargetNames)
    \/ MSendPings
    \/ \E t \in TargetNames : MRunManual(<<[id |-> 1, target |-> t]>>)

SpecRegistry == InitM /\ [][NextRegistry]_vars

\* the Master's registry and one run-manual request to the Master
NextRunManual ==
    \/ \E c \in Conns, T \in TargetSets, named \in BOOLEAN : MRegister(c, T, named)
    \/ \E c \in Conns : MClose(c)
    \/ \E jobs \in JobLists : MRunManual(jobs)
    \/ \E i \in 1..MaxRunJobs, failed \in BOOLEAN, errs \in SUBSET (1..MaxRunJobs) :
          MWorkerResponds(i, failed, errs)

SpecRunManual == InitM /\ [][NextRunManual]_vars

\* the Worker's link to the Master; the timer of tryToConnect runs and fires
SpecReconnect ==
    /\ InitM /\ [][NextReconnect]_vars
    /\ WF_vars(LTick) /\ WF_vars(LTimerFires)

-----------------------------------------------------------------------------
(***************************************************************************)
(* Properties.                                                             *)
(***************************************************************************)

\* the jobs of target t a Worker has in flight: started by the queue, not finished
InFlight(T, t) == IF t \in DOMAIN T THEN T[t].pending ELSE 0

Limit(T, t) == IF t \in DOMAIN T THEN T[t].concurrency ELSE 0

\* the committed rows of target t in status running
RunningRows(t) == {id \in RowIds : rows[id].status = STATUS_RUNNING /\ rows[id].target = t}

C2_PausedStartsNothing ==
    [][\A w \in Workers, t \in TargetNames :
          (/\ t \in DOMAIN targets[w] /\ t \in DOMAIN targets'[w]
           /\ targets[w][t].paused /\ targets'[w][t].paused)
             => targets'[w][t].pending <= targets[w][t].pending]_vars

\* C3, as stated: no row is set to accepted by the UPDATE of two Workers.
C3_OneClaimer == \A id \in RowIds : Cardinality(acceptedBy[id]) <= 1

AllowedEdges ==
    {<<STATUS_WAITING, STATUS_ACCEPTED>>, <<STATUS_MANUAL, STATUS_ACCEPTED>>,
     <<STATUS_ACCEPTED, STATUS_RUNNING>>, <<STATUS_RUNNING, STATUS_DONE>>,
     <<STATUS_WAITING, STATUS_IGNORED>>, <<STATUS_MANUAL, STATUS_IGNORED>>}

\* C4, as stated: the status of a row changes only along
\* waiting|manual -> accepted -> running -> done or waiting|manual -> ignored.
C4_StatusEdges ==
    [][\A id \in RowIds :
          rows'[id].status # rows[id].status
             => <<rows[id].status, rows'[id].status>> \in AllowedEdges]_vars

\* C5, as stated: a row holds result=ok only if the child process of its job
\* exited with code 0.
C5_OkOnlyAfterExit0 ==
    \A id \in RowIds : rows[id].result = RESULT_OK => exitOf[id] = "0"

\* C6, as stated: a run-manual request that passed its checks, met no storage
\* failure and lost no target while it claimed is answered once, with data in
\* which every distinct id it named is under jobs or under errors, and under one
\* of them only.
C6_OneReportPerId ==
    \A r \in Reqs :
        (/\ req[1][r].st = "answered"
         /\ req[1][r].resp \notin {"error_waiting", "error_storage", "error_rows",
                                    "error_target"})
           => /\ req[1][r].resp = "data"
              /\ req[1][r].sent = 1
              /\ req[1][r].jobs \cup req[1][r].errors = Range(req[1][r].ids)
              /\ req[1][r].jobs \cap req[1][r].errors = {}

\* C7: a run-manual request naming an id that another request still waits for is
\* answered with an error, and it leaves the waiter table, the rows and the
\* Worker's storage calls as they were.
C7_DuplicateRejected ==
    [][\A w \in Workers, r \in Reqs :
          (/\ req[w][r].st = "none" /\ req'[w][r].st # "none"
           /\ Range(req'[w][r].ids) \cap DOMAIN jobPromises[w] # {})
             => /\ req'[w][r].resp = "error_waiting" /\ req'[w][r].sent = 1
                /\ jobPromises'[w] = jobPromises[w]
                /\ rows' = rows /\ txn' = txn
                /\ dbq'[w] = dbq[w] /\ gt'[w] = gt[w]]_vars

\* C7, witness: a request was rejected because of an id it shares with a waiting
\* request, and it named another id as well
C7_Witness ==
    \E r \in Reqs : /\ req[1][r].resp = "error_waiting"
                    /\ Len(req[1][r].ids) = 2
                    /\ DOMAIN jobPromises[1] # {}

\* the responses sent in reply to message i
RepliesTo(i) == {k \in DOMAIN sent : sent[k].re = i /\ sent[k].kind \in {"data", "error"}}

\* C8, as stated: on a connection that stays open, every request whose type has
\* a handler has exactly one response once its handler has returned, thrown or
\* settled.
C8_OneResponse ==
    \A i \in DOMAIN frames :
        (/\ frames[i].kind = "request" /\ frames[i].type \in DOMAIN Handlers
         /\ calls[i] \in {"returned", "threw", "settled"} /\ ~closed)
           => Cardinality(RepliesTo(i)) = 1

\* C9: a response sent in reply to a request that was parsed carries the no of
\* that request, be it the handler's answer, the router's error or "invalid
\* password"; a response to a message that could not be parsed carries no=0.
C9_ResponseCarriesNo ==
    \A k \in DOMAIN sent :
        sent[k].kind \in {"data", "error"}
           => /\ frames[sent[k].re].kind = "request" => sent[k].no = frames[sent[k].re].no
              /\ frames[sent[k].re].kind # "request" => sent[k].no = 0

\* C9, witness: a malformed REQUEST that held a no was answered, and then a
\* request whose no is not 0 was refused with "invalid password"
C9_Witness ==
    /\ \E k \in DOMAIN sent : /\ frames[sent[k].re].kind = "badrequest"
                               /\ frames[sent[k].re].no > 0
    /\ \E k \in DOMAIN sent : calls[sent[k].re] = "refused" /\ sent[k].no # 0

-----------------------------------------------------------------------------
\* the targets the Worker registered on connection c advertised
Advertised(ws, c) == UNION {ws[i].targets : i \in {j \in DOMAIN ws : ws[j].connection = c}}

\* a drain with the pending set P did what it has to do
Drained(P) ==
    /\ targetsToPoke' = {}
    /\ \A c \in Conns :
          polls'[c] = IF Advertised(workers, c) \cap P # {}
                      THEN Append(polls[c], Advertised(workers, c) \cap P)
                      ELSE polls[c]
    /\ targetsWaitingToPoke' =
          targetsWaitingToPoke \cup {t \in P : \A c \in Conns : t \notin Advertised(workers, c)}

\* the step is a poke that drains at once (leading edge); win'.T holds its targets
DrainByPoke == pokes' = pokes + 1 /\ ShouldInvoke(thr, now)

\* the step is the throttle's timer draining the calls it has coalesced
DrainByTimer ==
    /\ pokes' = pokes /\ thr' # thr
    /\ TimerDue /\ ShouldInvoke(thr, now) /\ thr.lastArgs

Registers == Len(workers') = Len(workers) + 1

\* C12: when a Worker registers while the deferred-poke set holds targets it
\* advertises, the same step sends that Worker one poll with exactly the
\* intersection and takes exactly those targets off the deferred set; no other
\* connection is sent anything and the other deferred targets stay
C12_RegisterTakesDeferred ==
    [][ Registers =>
          LET e     == workers'[Len(workers')]
              intrs == targetsWaitingToPoke \cap e.targets
          IN /\ polls' = IF intrs # {}
                         THEN [polls EXCEPT ![e.connection] = Append(@, intrs)]
                         ELSE polls
             /\ targetsWaitingToPoke' = targetsWaitingToPoke \ intrs ]_vars

\* C12, witness: a and b were poked while nobody served them, then a Worker
\* advertising a registered: it was sent poll({a}) and b is still deferred
C12_Witness ==
    \E c \in Conns :
        /\ pokes = 1 /\ win.T = {"a", "b"} /\ win.stable = {} /\ gone = {}
        /\ workers = <<[connection |-> c, targets |-> {"a"}]>>
        /\ polls[c] = <<{"a"}>> /\ targetsWaitingToPoke = {"b"}

\* C13: the Master's answer to run-manual(jobs) is a report, never an error;
\* it names every input id exactly once, under jobs or under errors; an id
\* whose target nobody serves has the error "worker serving target 'X' not
\* found", and the ids of a rejected Worker call have the rejection message
C13_EveryIdReported ==
    mrun.st = "answered" =>
        /\ mrun.resp.kind = "data"
        /\ \A j \in Range(mrun.jobs) :
              (j.id \in DOMAIN mrun.resp.jobs) # (j.id \in DOMAIN mrun.resp.errors)
        /\ \A j \in Range(mrun.jobs) :
              j.id \in Range(mrun.exceptions) =>
                 /\ j.id \in DOMAIN mrun.resp.errors
                 /\ mrun.resp.errors[j.id] = NotFoundMessage(j.target)
        /\ \A i \in DOMAIN mrun.calls :
              mrun.calls[i].status = "rejected" =>
                 \A id \in Range(mrun.calls[i].ids) :
                    /\ id \in DOMAIN mrun.resp.errors
                    /\ mrun.resp.errors[id] = "Socket is closed"

-----------------------------------------------------------------------------
\* request i was passed on to the RequestHandler
Dispatched(i) == frames[i].kind = "request" /\ calls[i] \notin {"none", "refused"}

\* request i or a request before it carried the configured password
PasswordSeen(i) == \E j \in 1..i : frames[j].kind = "request" /\ rx[j].pw = "good"

\* a request that is not let through is answered once, with an error that
\* carries its no, and it is the last message the connection processes
Refused(i) ==
    /\ calls[i] = "refused" /\ closed /\ i = Len(frames)
    /\ \E k \in DOMAIN sent : /\ RepliesTo(i) = {k}
                              /\ sent[k].kind = "error" /\ sent[k].no = frames[i].no

\* C14, as amended: on a daemon with a password, a request is passed on only if
\* the connection is authorized: this request or one before it carried the
\* password, or the peer is loopback and always_allow_localhost is set, or the
\* daemon itself has sent a request on the connection (the Worker's link to the
\* Master).  Any other request is answered "invalid password", the connection
\* is closed and nothing after it is processed.
C14_AuthorizedOrOwnLink ==
    password =>
        \A i \in DOMAIN frames :
            frames[i].kind = "request" =>
                IF localhost \/ PasswordSeen(i) \/ rx[i].sends > 0
                THEN Dispatched(i) ELSE Refused(i)

\* C14, witness: on a daemon with a password a request with the password was
\* passed on, and after it a request without; nothing else authorized them
C14_Witness ==
    /\ password /\ ~localhost /\ futures = <<>> /\ Len(frames) = 2
    /\ Dispatched(1) /\ rx[1].pw = "good"
    /\ Dispatched(2) /\ rx[2].pw = "bad"

\* C14, as stated: a request is passed on only if this request or one before
\* it carried the password, or the peer is loopback with always_allow_localhost
C14_AuthorizedOnly ==
    password =>
        \A i \in DOMAIN frames :
            frames[i].kind = "request" =>
                IF localhost \/ PasswordSeen(i) THEN Dispatched(i) ELSE Refused(i)

-----------------------------------------------------------------------------
\* C15: when a connection closes, by close(), by the socket's 'close' or by its
\* 'error', every request that was outstanding on it is rejected with "Socket
\* is closed" and the table of outstanding requests is empty; on a closed
\* connection no request stays pending
C15_CloseFailsOutstanding ==
    [][ closed' =>
          /\ requestPromises' = {}
          /\ \A k \in DOMAIN futures' : futures'[k].state # "pending"
          /\ ~closed => \A k \in DOMAIN futures :
                           futures[k].state = "pending"
                              => futures'[k].state = "Socket is closed" ]_vars

\* C15, witness: of two requests sent on the connection one was answered and
\* the other was outstanding when the connection closed
C15_Witness ==
    /\ closed /\ Len(futures) = 2
    /\ \E k \in DOMAIN futures : futures[k].state = "resolved"
    /\ \E k \in DOMAIN futures : futures[k].state = "Socket is closed"

-----------------------------------------------------------------------------
\* C16: every received frame that is malformed JSON, fails the schema or has
\* an unknown message type is answered with one error response with no=0, and
\* no handler is invoked for it
C16_BadFrameAnswered ==
    \A i \in DOMAIN frames :
        frames[i].kind \in {"notjson", "badrequest", "badtype"} =>
            /\ calls[i] = "none"
            /\ \E k \in DOMAIN sent : /\ RepliesTo(i) = {k}
                                      /\ sent[k].kind = "error" /\ sent[k].no = 0

-----------------------------------------------------------------------------
\* C17: whenever the Worker's link to the Master is closed or a connection
\* attempt has failed, the Worker eventually makes a new connection attempt, at
\* whatever point the link closed
C17_Reconnects ==
    (link.st \in {"timer", "closed"} /\ link.attempts < MaxAttempts)
        ~> (link.st = "connecting")


\* C18: a poll, pause or continue request whose targets list names a target the
\* Worker does not serve is answered with the error "invalid target" and has no
\* other effect: nextpoll, the paused flags, the rows and the polling flag are
\* unchanged and no polling cycle is started.
C18_InvalidTargetRefused ==
    [][\A w \in Workers :
          lastBad'[w] # lastBad[w] =>
              /\ lastBad'[w].reply = "invalid target"
              /\ nextpoll'[w] = nextpoll[w]
              /\ targets'[w] = targets[w]
              /\ polling'[w] = polling[w]
              /\ gt'[w] = gt[w]
              /\ rows' = rows]_vars

\* the same for the names that no JavaScript object inherits
C18_PlainNameRefused ==
    [][\A w \in Workers :
          (lastBad'[w] # lastBad[w] /\ lastBad'[w].targets \cap ProtoNames = {}) =>
              /\ lastBad'[w].reply = "invalid target"
              /\ nextpoll'[w] = nextpoll[w]
              /\ targets'[w] = targets[w]
              /\ polling'[w] = polling[w]
              /\ gt'[w] = gt[w]
              /\ rows' = rows]_vars

C18_PlainWitness ==
    \E w \in Workers : lastBad[w].n > 0 /\ lastBad[w].targets \cap ProtoNames = {}

\* C20: the reserved target name "null" is rejected when the configuration is
\* parsed and by the add-target request: no target named "null" exists in a
\* Worker's target set.
C20_NoNullTarget == \A w \in Workers : NULL \notin DOMAIN targets[w]

\* the part of C20 about the configuration: a Worker that has taken no
\* add-target request serves no target named "null"
C20_ConfigRejectsNull == ops = 0 => \A w \in Workers : NULL \notin DOMAIN targets[w]

\* the job in slot k of Worker w finishes in this step (cb() is called)
JobFinishes(w, k) == k \in DOMAIN job[w] /\ k \notin DOMAIN job'[w]

\* the names a set of postponed poll targets stands for
PollNames(n) == IF NULL \in n THEN TargetNames \cup {NULL} ELSE n

\* a polling cycle for the targets postponed at Worker w is started in this
\* step: getTasks is at its first call with these targets
CycleStarted(w) ==
    /\ polling'[w]
    /\ gt'[w][PollFlow].pc = "begin"
    /\ PollNames(nextpoll[w]) \cap DOMAIN targets'[w] \subseteq gt'[w][PollFlow].targets

\* C19: when a poll is postponed (its targets wait in nextpoll and no cycle is
\* running) and a job of one of these targets finishes leaving the target not
\* paused and below its concurrency limit, a polling cycle for the postponed
\* targets is started; and postponed targets leave nextpoll only into a polling
\* cycle that is started for them, so a postponed poll is never lost.
C19_PostponedPollRetriggered ==
    [][\A w \in Workers :
          /\ \A k \in JobKeys :
                JobFinishes(w, k) =>
                    LET t == job[w][k].target
                        q == targets'[w][t]
                    IN (/\ ~polling[w] /\ HasPollTarget(Mem(w), t)
                        /\ ~q.paused /\ QLength(q) < q.concurrency)
                       => CycleStarted(w) /\ nextpoll'[w] = {}
          /\ ~(PollNames(nextpoll[w]) \subseteq PollNames(nextpoll'[w]))
                => CycleStarted(w)]_vars

\* a job finished and onJobFinished started the polling cycle for the postponed
\* targets: the cycle is at its first call and nothing waits in nextpoll
C19_Witness ==
    \E w \in Workers :
        /\ retriggered[w]
        /\ polling[w] /\ gt[w][PollFlow].pc = "begin" /\ nextpoll[w] = {}

\* C21: remove-target on a target whose queue holds queued or in-flight jobs
\* fails with an error and leaves the target set and that queue unchanged;
\* add-target with the name of a served target fails with an error and leaves
\* that target (queue contents, concurrency, paused flag) unchanged.
C21_BusyOrExistingTargetKept ==
    [][\A w \in Workers :
          lastHeld'[w] # lastHeld[w] =>
              /\ lastHeld'[w].reply \in {"queue is not empty", "already added",
                                         "Invalid concurrency value."}
              /\ targets'[w] = targets[w]
              /\ job'[w] = job[w]]_vars

\* both refusals have happened: an add-target for a served name was refused
\* after a remove-target for a target with a job in its queue was
C21_Witness ==
    \E w \in Workers :
        /\ lastHeld[w].seen = {"add-target", "remove-target"}
        /\ lastHeld[w].type = "remove-target"
        /\ lastHeld[w].reply = "queue is not empty"
        /\ \E t \in DOMAIN targets[w] : targets[w][t].pending > 0

\* C22: the Master always knows which Workers serve which targets: the target
\* list the Master holds for a registered Worker equals the Worker's current
\* target set, whatever add-target and remove-target requests the Worker took.
C22_MasterKnowsTargets ==
    \A i \in DOMAIN workers :
        workers[i].targets = DOMAIN targets[workers[i].connection]

\* the part of C22 that holds: at the moment it is added, the Master's entry
\* for a Worker is the target set the Worker serves
C22_EntryStartsRight ==
    [][\A c \in Conns :
          (c \in Registered(workers') /\ c \notin Registered(workers)) =>
              \E i \in DOMAIN workers' :
                  /\ workers'[i].connection = c
                  /\ workers'[i].targets = DOMAIN targets[c]]_vars

\* a register-worker request is handled in this step
RegisterHandled == lastReg' # lastReg \/ Registers

\* C23: register-worker succeeds and appends exactly one registry entry if and
\* only if its targets field is a non-empty array of strings, the name being
\* optional; a request whose targets field is missing, empty or not an array
\* of strings is answered with an error and leaves the registry unchanged.
C23_RegisterIffTargets ==
    [][RegisterHandled =>
          IF ListFormatOk(lastReg'.targets)
          THEN /\ lastReg'.reply = "ok"
               /\ workers' = Append(workers, [connection |-> lastReg'.connection,
                                              targets |-> lastReg'.targets])
          ELSE /\ lastReg'.reply # "ok"
               /\ workers' = workers]_vars

\* the part of C23 that holds: for requests that carry a name and a targets
\* field
C23_NamedWithTargets ==
    [][(RegisterHandled /\ lastReg'.named /\ lastReg'.targets # NoTargets) =>
          IF ListFormatOk(lastReg'.targets)
          THEN /\ lastReg'.reply = "ok"
               /\ workers' = Append(workers, [connection |-> lastReg'.connection,
                                              targets |-> lastReg'.targets])
          ELSE /\ lastReg'.reply # "ok"
               /\ workers' = workers]_vars

\* poll() of Worker w calls getTasks in this step: a polling cycle begins
CycleBegins(w) ==
    /\ gt'[w][PollFlow].pc = "begin"
    /\ gt'[w][PollFlow] # gt[w][PollFlow]

\* C24: poll() starts a polling cycle only if at least one target of the poll
\* set has slack: its length is below its concurrency and it is not paused.
C24_CycleNeedsSlack ==
    [][\A w \in Workers :
          CycleBegins(w) =>
              \E t \in gt'[w][PollFlow].targets \cap DOMAIN targets'[w] :
                  /\ QLength(targets'[w][t]) < targets'[w][t].concurrency
                  /\ ~targets'[w][t].paused]_vars

\* the part of C24 that holds: a cycle begins only if a target of the poll set
\* has a length below its concurrency
C24_CycleNeedsFreeSlot ==
    [][\A w \in Workers :
          CycleBegins(w) =>
              /\ polling'[w] /\ nextpoll'[w] = {}
              /\ \E t \in gt'[w][PollFlow].targets \cap DOMAIN targets'[w] :
                    QLength(targets'[w][t]) < targets'[w][t].concurrency]_vars

\* the calls of the polling cycle that wait on Worker w's link
PollCalls(w) == Cardinality({i \in DOMAIN dbq[w] : dbq[w][i] = PollFlow})

\* a request is handled in this step (no storage call fails in it)
RequestStep == ops' = ops + 1 /\ fails' = fails

\* C25: at most one polling cycle is in flight per Worker: a poll() made while
\* polling is set (by any request) starts no claim transaction and the targets
\* asked for meanwhile are kept in nextpoll; when the running cycle ends,
\* poll() runs again for them: a new cycle is started if one of them has a
\* free slot, and else they stay in nextpoll.
C25_OneCycleBacklogKept ==
    [][\A w \in Workers :
          /\ PollCalls(w)' <= 1
          /\ (polling[w] /\ RequestStep) =>
                /\ polling'[w] /\ gt'[w][PollFlow] = gt[w][PollFlow]
                /\ PollCalls(w)' = PollCalls(w)
                /\ PollNames(nextpoll[w]) \subseteq PollNames(nextpoll'[w])
          /\ (polling[w] /\ ~polling'[w]) =>
                \/ nextpoll'[w] = {}
                \/ ~HasFreeTargets(Mem(w), GetPollTargets(Mem(w)))']_vars

\* C25 as stated: when the running cycle ends with targets waiting in nextpoll
\* (targets the Worker still serves) a new cycle is started for them
C25_BacklogRestartsAtOnce ==
    [][\A w \in Workers :
          (polling[w] /\ ~polling'[w]) => GetPollTargets(Mem(w))' = {}]_vars

\* a poll request arrived while a cycle was running: the cycle goes on, now at
\* its commit, and the targets asked for wait in nextpoll
C25_Witness ==
    \E w \in Workers :
        /\ polling[w] /\ gt[w][PollFlow].pc = "commit" /\ PollCalls(w) = 1
        /\ nextpoll[w] # {}

\* a storage call of Worker w's polling cycle fails in this step
FailedPollStep(w) ==
    /\ w \in active /\ dbq[w] # <<>> /\ Head(dbq[w]) = PollFlow
    /\ fails' = fails + 1

\* C26: the polling flag is set only while a cycle's getTasks is under way, so
\* every cycle that ends, by success or by failure, leaves polling = false
\* unless poll() started the next cycle; and a cycle whose storage call fails
\* puts no target back into nextpoll.
C26_CycleEndClearsPolling ==
    [][\A w \in Workers :
          /\ polling'[w] => (PollCalls(w)' = 1 /\ gt'[w][PollFlow].pc # "idle")
          /\ ~polling'[w] => (PollCalls(w)' = 0 /\ gt'[w][PollFlow].pc = "idle")
          /\ FailedPollStep(w) =>
                /\ nextpoll'[w] \subseteq nextpoll[w]
                /\ polling'[w] => (nextpoll'[w] = nextpoll[w] \/ nextpoll'[w] = {})]_vars

\* a storage call of a polling cycle failed (no run-manual request was made and
\* the waiting row is still waiting), and a cycle has been started after it
C26_Witness ==
    \E w \in Workers :
        /\ fails >= 1 /\ \A r \in Reqs : req[w][r] = ReqNone
        /\ rows[1].status = STATUS_WAITING /\ acceptedBy[1] = {}
        /\ polling[w] /\ gt[w][PollFlow].pc = "begin" /\ nextpoll[w] = {}

\* the getTasks of Worker w's polling cycle is fulfilled in this step: its
\* commit succeeds and every accepted row's target is still served
CycleFulfilled(w) ==
    /\ w \in active /\ dbq[w] # <<>> /\ Head(dbq[w]) = PollFlow
    /\ gt[w][PollFlow].pc = "commit" /\ fails' = fails
    /\ gt'[w][PollFlow] # gt[w][PollFlow]
    /\ \A id \in Accepted(gt[w][PollFlow]) :
          gt[w][PollFlow].res[id].target \in DOMAIN targets[w]

SetRunningFailed(w, k) ==
    /\ w \in active /\ k \in DOMAIN job[w] /\ job[w][k].pc = "setRunning"
    /\ k \in DOMAIN job'[w] /\ job'[w][k].pc # "setRunning"
    /\ fails' = fails + 1
    /\ View(w, "ok", job[w][k].id)'.status # STATUS_RUNNING

\* the UPDATE ... SET status='accepted' of getTasks flow f of Worker w is
\* settled in this step with a failure, and an accepted row is not accepted
\* afterwards
UpdAccFailed(w, f) ==
    /\ w \in active /\ gt[w][f].pc = "updAcc" /\ gt'[w][f] # gt[w][f]
    /\ fails' = fails + 1
    /\ \E id \in Accepted(gt[w][f]) : View(w, "ok", id)'.status # STATUS_ACCEPTED

\* C28: a storage call that fails is reported to its caller as an error, never
\* as a success: when the UPDATE of setJobStatus(id, running) fails, enqueueJob
\* takes its catch branch and no child is spawned, and when the UPDATE to
\* accepted fails, getTasks ends rejected instead of going on to its next
\* statement.
C28_FailedCallIsError ==
    [][\A w \in Workers :
          /\ \A k \in JobKeys :
                SetRunningFailed(w, k) =>
                    job'[w][k].pc = "setDone" /\ job'[w][k].result = RESULT_FAIL
          /\ \A f \in GtFlows :
                UpdAccFailed(w, f) => gt'[w][f].pc \notin {"updIgn", "commit"}]_vars


\* the commit of getTasks flow f of Worker w succeeds in this step
CommitDone(w, f) ==
    /\ w \in active /\ dbq[w] # <<>> /\ Head(dbq[w]) = f
    /\ gt[w][f].pc = "commit" /\ gt'[w][f] # gt[w][f] /\ fails' = fails

\* C29: every row a Worker sets to accepted is enqueued into its target's
\* queue, whatever requests (pause, continue, add-target, remove-target)
\* arrived while the claim transaction was under way: once the transaction's
\* commit has succeeded, each accepted row has a job of this Worker.
C29_AcceptedRowsEnqueued ==
    [][\A w \in Workers : \A f \in GtFlows :
          CommitDone(w, f) =>
              \A id \in Accepted(gt[w][f]) :
                  \E k \in DOMAIN job'[w] : job'[w][k].id = id]_vars

\* C30: the row of a job is set to done before the job-done event for it is
\* emitted, so every id a run-manual response reports under jobs belongs to a
\* row whose status is done.
C30_ReportedJobsAreDone ==
    \A w \in Workers : \A r \in Reqs :
        (req[w][r].st = "answered" /\ req[w][r].resp = "data")
        => \A id \in req[w][r].jobs : rows[id].status = STATUS_DONE

\* the final write of done for job k of Worker w is settled in this step with
\* a failure, and the row is not done afterwards
FinalWriteFails(w, k) ==
    /\ w \in active /\ k \in DOMAIN job[w] /\ job[w][k].pc = "setDone"
    /\ dbq[w] # <<>> /\ Head(dbq[w]) = JobFlow(k)
    /\ fails' = fails + 1
    /\ \E id \in RowIds : id = job[w][k].id /\ View(w, "ok", id)'.status # STATUS_DONE

\* C31: when the final write of done for a job fails, the job still leaves its
\* queue (the queue's length decreases by one) and onJobFinished still runs:
\* a poll postponed for the job's target is started when the target is not
\* paused and has a free slot.
C31_FailedFinalWriteFreesSlot ==
    [][\A w \in Workers : \A k \in JobKeys :
          FinalWriteFails(w, k) =>
              LET t == job[w][k].target
                  q == targets'[w][t]
              IN /\ k \notin DOMAIN job'[w]
                 /\ QLength(q) = QLength(targets[w][t]) - 1
                 /\ (/\ ~polling[w] /\ HasPollTarget(Mem(w), t)
                     /\ ~q.paused /\ QLength(q) < q.concurrency)
                    => CycleStarted(w) /\ nextpoll'[w] = {}]_vars

\* a job's child has exited, its final write failed (the row is still
\* running), and the job is gone: its target's queue is empty
C31_Witness ==
    \E w \in Workers : \E id \in RowIds :
        /\ rows[id].status = STATUS_RUNNING /\ exitOf[id] # "none"
        /\ fails > 0 /\ txn[w] = NoTxn
        /\ \A k \in DOMAIN job[w] : job[w][k].id # id
        /\ rows[id].target \in DOMAIN targets[w]
        /\ QLength(targets[w][rows[id].target]) = 0

\* job k of Worker w is created in this step
Fresh(w, k) == k \in DOMAIN job'[w] /\ k \notin DOMAIN job[w]

\* the jobs of target t that wait in the queue after this step are the jobs
\* that waited before it, less some that were first in line, in their old
\* order, followed by jobs created in this step
KeepsOrder(w, t) ==
    LET old == targets[w][t].jobs
        new == targets'[w][t].jobs
    IN \E n \in 0..Len(old) :
          /\ Len(new) >= Len(old) - n
          /\ \A i \in 1..Len(new) :
                IF i <= Len(old) - n THEN new[i] = old[n + i] ELSE Fresh(w, new[i])

\* C32: within one target the jobs are started in the order in which they
\* were enqueued: the jobs left waiting after a step are a tail of the queue as
\* it was, followed by the jobs enqueued in the step, and a job enqueued in the
\* step is started only when none that waited before it is left; a start
\* happens only within the concurrency limit; and the jobs one polling cycle
\* enqueues enter the queue in ascending id order.
C32_FifoAscending ==
    [][\A w \in Workers : \A t \in TargetNames :
          (t \in DOMAIN targets[w] /\ t \in DOMAIN targets'[w]) =>
              LET q == targets'[w][t] IN
              /\ KeepsOrder(w, t)
              /\ \A k \in JobKeys :
                    (Fresh(w, k) /\ job'[w][k].target = t /\ job'[w][k].pc # "queued")
                    => Range(targets[w][t].jobs) \cap Range(q.jobs) = {}
              /\ q.pending > targets[w][t].pending => q.pending <= q.concurrency
              /\ (gt[w][PollFlow].pc = "commit" /\ gt'[w][PollFlow] # gt[w][PollFlow])
                 => /\ \A i, j \in 1..Len(q.jobs) :
                          (i < j /\ Fresh(w, q.jobs[i]) /\ Fresh(w, q.jobs[j]))
                          => job'[w][q.jobs[i]].id < job'[w][q.jobs[j]].id
                    /\ \A k \in JobKeys : \A i \in 1..Len(q.jobs) :
                          (/\ Fresh(w, k) /\ job'[w][k].target = t
                           /\ job'[w][k].pc # "queued" /\ Fresh(w, q.jobs[i]))
                          => job'[w][k].id < job'[w][q.jobs[i]].id]_vars

\* one polling cycle accepted rows 1, 2 and 3 of a target with concurrency 1:
\* the job of row 1 is done, the job of row 2 is in flight and the job of row 3
\* waits in the queue
C32_Witness ==
    \E w \in Workers : \E t \in DOMAIN targets[w] :
        LET q == targets[w][t] IN
        /\ fails = 0 /\ q.concurrency = 1 /\ q.pending = 1 /\ Len(q.jobs) = 1
        /\ rows[1].status = STATUS_DONE
        /\ job[w][q.jobs[1]].id = 3
        /\ \E k \in DOMAIN job[w] : job[w][k].id = 2 /\ job[w][k].pc = "child"


\* the targets a valid targets field T asks Worker w to poll
Asked(w, T) == IF T = NoTargets THEN DOMAIN targets[w] ELSE T

\* C33: the poll request set accumulates.  The targets of a poll request that
\* names served targets (all served targets when the request names none) are in
\* the cycle the request starts or in nextpoll after it; served targets leave
\* nextpoll only into the polling cycle that is started for them; nextpoll is empty
\* after every start of a cycle, and it becomes empty in no other step.
C33_PollSetAccumulates ==
    [][\A w \in Workers :
          /\ \A T \in AnyTargetInputs :
                (ValidTargets(w, T) /\ ReqPoll(w, T)) =>
                    IF CycleBegins(w)
                    THEN Asked(w, T) \subseteq gt'[w][PollFlow].targets
                    ELSE PollNames(T) \subseteq PollNames(nextpoll'[w])
          /\ ~(GetPollTargets(Mem(w)) \cap DOMAIN targets[w] \cap DOMAIN targets'[w]
                    \subseteq GetPollTargets(Mem(w))')
                => /\ CycleBegins(w)
                   /\ GetPollTargets(Mem(w)) \cap DOMAIN targets'[w]
                          \subseteq gt'[w][PollFlow].targets
          /\ CycleBegins(w) => nextpoll'[w] = {}
          /\ (nextpoll[w] # {} /\ nextpoll'[w] = {}) => CycleBegins(w)]_vars

\* a polling cycle is under way and two poll requests, one naming a target and
\* one naming none, have arrived since it started: nextpoll stands for all targets
C33_Witness ==
    \E w \in Workers :
        /\ polling[w] /\ gt[w][PollFlow].pc # "idle"
        /\ nextpoll[w] = {NULL} /\ ops >= 3

\* the calls of the Master's run-manual request that wait for connection c
PendingCalls(c) ==
    {i \in DOMAIN mrun.calls : mrun.calls[i].connection = c /\ mrun.calls[i].status = "pending"}

\* C34: every entry of the Master's registry belongs to an open connection:
\* the step in which a connection closes removes every entry of it, and
\* nothing is sent to a closed connection afterwards (no poll, no ping, no
\* run-manual call).
C34_RegistryOfOpenConnections ==
    [][/\ Registered(workers') \cap gone' = {}
       /\ \A c \in gone :
             /\ polls'[c] = polls[c]
             /\ PendingCalls(c)' = {}]_vars

\* a connection that had registered twice and was sent one poll for each
\* entry has closed; another connection registered after it and has been sent
\* a ping and a poll
C34_Witness ==
    \E c \in gone : \E d \in Registered(workers) :
        /\ Len(polls[c]) = 2 /\ Ping \notin Range(polls[c])
        /\ Len(polls[d]) = 2 /\ Ping \in Range(polls[d])
        /\ lastReg.connection = d
\* ---- C35 ----------------------------------------------------------------
\* C35: however the stream of the sent messages is split into chunks, the
\* messages parsed so far are the first of the sent ones, each once and in the
\* order sent; the buffer holds the bytes after the last separator received and
\* no separator; with what did not arrive yet they make up the rest of what was
\* sent, so when all of it arrived every message was parsed and the buffer is
\* empty.
C35_ChunkingIsInvisible ==
    /\ Len(got) <= Len(put)
    /\ got = SubSeq(put, 1, Len(got))
    /\ \A i \in DOMAIN data : data[i] # EOT
    /\ Bytes(got) \o data \o wire = Bytes(put)
    /\ wire = <<>> => (got = put /\ data = <<>>)

\* three messages were sent, two of a different kind are parsed, the start of
\* the third waits in the buffer and its end did not arrive
C35_Witness ==
    /\ Len(put) = 3 /\ Len(got) = 2 /\ got[1] # got[2]
    /\ data # <<>> /\ wire # <<>>
    /\ Len(data) + Len(wire) = Len(Encode(put[3]))

\* ---- C36 ----------------------------------------------------------------
\* the calls of getTasks that began and did not return or throw yet
InClaim(w) == {f \in GtFlows : gt[w][f].pc # "idle"}

\* C36: on the link of a Worker at most one call of getTasks is between its
\* beginTransaction and its commit: the claim of a run-manual request does not
\* run while the claim of a polling cycle or of another run-manual request does.
C36_OneClaimAtATime ==
    \A w \in Workers : Cardinality(InClaim(w)) <= 1

\* ---- C37 ----------------------------------------------------------------
\* C37: a Worker enqueues a row at most once: no two of the jobs it enqueued
\* are for the same row id.
C37_RowEnqueuedOnce ==
    \A w \in Workers : \A k1, k2 \in DOMAIN job[w] :
        job[w][k1].id = job[w][k2].id => k1 = k2

\* ---- C38 ----------------------------------------------------------------
\* C38: jobPromises holds an id only for a run-manual request that was not
\* answered yet: once request r got its response, with data or with an error,
\* no id of jobPromises belongs to r.
C38_NoWaiterAfterAnswer ==
    \A w \in Workers : \A id \in DOMAIN jobPromises[w] :
        req[w][jobPromises[w][id]].st # "answered"

\* ---- C39 ----------------------------------------------------------------
\* C39: the targets a polling cycle passes to getTasks are targets the Worker
\* serves when the cycle begins.
C39_CycleTargetsServed ==
    [][\A w \in Workers :
          CycleBegins(w) => gt'[w][PollFlow].targets \subseteq DOMAIN targets'[w]]_vars

\* ---- C40 ----------------------------------------------------------------
\* the targets the registered Workers advertise
AllAdvertised == UNION {workers[i].targets : i \in DOMAIN workers}

\* C40: no target of the deferred-poke set is advertised by a registered
\* Worker.
C40_DeferredTargetsUnserved == targetsWaitingToPoke \cap AllAdvertised = {}

\* a target is deferred while a Worker that serves another target is registered
\* and has been poked
C40_Witness ==
    /\ targetsWaitingToPoke # {}
    /\ AllAdvertised # {}
    /\ \E c \in Registered(workers) : polls[c] # <<>>

=============================================================================
